---- MODULE Spec2Model ----
(***************************************************************************)
(* The john-snow teaching notebooks as a state machine.  One behaviour is  *)
(* one notebook run top to bottom in a fresh kernel: Init is the kernel    *)
(* before the first cell with the shapefiles on disk, and every action is  *)
(* one step of it.  Locations are metres on a lattice (100 m steps east,    *)
(* 200 m steps north), so that a 200 m buffer separates the lattice points *)
(* exactly: a point 200 m away is on its boundary.                         *)
(***************************************************************************)
EXTENDS Integers, Sequences, FiniteSets, TLC

\* ------------------------------------------------------------------ bounds
\* the lattice is GridMax steps wide: x = 0, 100, .., 100 * GridMax
GridMax == 2
\* largest number of death locations in Cholera_Deaths.shp
MaxDeaths == 2

\* a bin of plotKernel is Step weights wide
Step == 2

\* the street segments join the vertices 0..MaxVertex
MaxVertex == 4

\* --------------------------------------------------------- program constants
\* pumps.buffer(200)
BufferDist == 200
\* regions_df.set_crs(epsg=27700)
Epsg == 27700

\* ------------------------------------------------------------------- inputs
Grid == {<<100 * i, 200 * j>> : i \in 0..GridMax, j \in 0..1}

\* the names of pumps.shp, in file order (row 0 is the Broad St Pump)
PumpNames == <<"Broad St Pump", "Rupert St Pump", "Brewer St Pump">>

NumPumps == Len(PumpNames)

Collinear(p, q, r) ==
    (q[1] - p[1]) * (r[2] - p[2]) = (q[2] - p[2]) * (r[1] - p[1])

\* an order on locations, used to list each set of locations once
Before(p, q) == p[1] < q[1] \/ (p[1] = q[1] /\ p[2] < q[2])

\* the pumps stand in the west of the lattice, one column per pump; deaths are
\* recorded over all of it
PumpGrid == {p \in Grid : p[1] <= 100 * (NumPumps - 1)}

\* pump locations: distinct and not all on one line (the Voronoi construction
\* needs that)
PumpLayouts ==
    {s \in [1..NumPumps -> PumpGrid] :
        /\ \A i, j \in 1..NumPumps : i < j => s[i] # s[j]
        /\ ~Collinear(s[1], s[2], s[3])}

\* the same, each set of locations listed once: for the notebooks that treat
\* every pump alike
SortedPumpLayouts ==
    {s \in PumpLayouts : \A i, j \in 1..NumPumps : i < j => Before(s[i], s[j])}

\* death locations: one row per location, at most MaxDeaths rows
DeathLayouts ==
    UNION {{s \in [1..n -> Grid] : \A i, j \in 1..n : i < j => Before(s[i], s[j])} :
            n \in 1..MaxDeaths}

\* the death counts of a location: one death, or more than one
Counts == {1, 2}

CrsOfFiles == "EPSG:27700"

NoCrs == "None"

\* ---------------------------------------------------------------- geometry
Point(p) == [kind |-> "Point", at |-> p]

EmptyGeom == [kind |-> "Empty"]

Dist2(p, q) == (p[1] - q[1]) * (p[1] - q[1]) + (p[2] - q[2]) * (p[2] - q[2])

\* geometry.buffer(d): all points within distance d of a point geometry
Buffer(g, d) == [kind |-> "Buffer", at |-> g.at, dist |-> d]

\* Region with the next seed left out of the comparison
RegionMissesSeed(points, i) ==
    [kind |-> "Region", at |-> points[i],
     others |-> {points[j] : j \in (DOMAIN points) \ {i, (i + 1) % Cardinality(DOMAIN points)}}]

\* the Thiessen polygon of seed number i of a list of seed points
Region(points, i) ==
    [kind |-> "Region", at |-> points[i],
     others |-> {points[j] : j \in (DOMAIN points) \ {i}}]

\* Interior with the edges of a Thiessen polygon taken for its interior
InteriorWithEdges(g) ==
    CASE g.kind = "Point" -> {g.at}
      [] g.kind = "Buffer" -> {q \in Grid : Dist2(q, g.at) < g.dist * g.dist}
      [] g.kind = "Region" ->
            {q \in Grid : \A s \in g.others : Dist2(q, g.at) <= Dist2(q, s)}
      [] OTHER -> {}

\* the lattice points in the interior of a geometry
Interior(g) ==
    CASE g.kind = "Point" -> {g.at}
      [] g.kind = "Buffer" -> {q \in Grid : Dist2(q, g.at) < g.dist * g.dist}
      [] g.kind = "Region" ->
            {q \in Grid : \A s \in g.others : Dist2(q, g.at) < Dist2(q, s)}
      [] OTHER -> {}

\* the lattice points on the boundary of a geometry
Boundary(g) ==
    CASE g.kind = "Buffer" -> {q \in Grid : Dist2(q, g.at) = g.dist * g.dist}
      [] g.kind = "Region" ->
            {q \in Grid : /\ \A s \in g.others : Dist2(q, g.at) <= Dist2(q, s)
                          /\ \E s \in g.others : Dist2(q, g.at) = Dist2(q, s)}
      [] OTHER -> {}

\* a within b: boundary and interior of a meet only the interior of b
Within(a, b) ==
    /\ Interior(a) # {}
    /\ (Interior(a) \cup Boundary(a)) \subseteq Interior(b)

\* Contains that lets b lie on the boundary of a
ContainsOrCovers(a, b) ==
    /\ Interior(b) # {}
    /\ \A q \in Interior(b) \cup Boundary(b) : q \in Interior(a) \cup Boundary(a)

\* a contains b: the interior of a holds boundary and interior of b, and the
\* boundaries do not touch
Contains(a, b) ==
    /\ Interior(b) # {}
    /\ \A q \in Interior(b) \cup Boundary(b) : q \in Interior(a)
    /\ Boundary(a) \cap Boundary(b) = {}

\* a intersects b: boundary and interior meet in any way
Intersects(a, b) ==
    (Interior(a) \cup Boundary(a)) \cap (Interior(b) \cup Boundary(b)) # {}

\* Relation with the two objects of contains taken in the other order
RelationContainsReversed(op, a, b) ==
    CASE op = "within" -> Within(a, b)
      [] op = "contains" -> Contains(b, a)
      [] op = "intersects" -> Intersects(a, b)

Relation(op, a, b) ==
    CASE op = "within" -> Within(a, b)
      [] op = "contains" -> Contains(a, b)
      [] op = "intersects" -> Intersects(a, b)

\* a.overlaps(b) for two buffers: the interiors meet and neither holds the other
Overlaps(a, b) ==
    /\ a.kind = "Buffer" /\ b.kind = "Buffer"
    /\ Dist2(a.at, b.at) < (a.dist + b.dist) * (a.dist + b.dist)
    /\ Dist2(a.at, b.at) > (a.dist - b.dist) * (a.dist - b.dist)

\* ------------------------------------------------------- spatial operations
\* The results of the operations of shapely are areas, known by the places of
\* the plane in their interior and on their boundary.  The plane reaches three
\* columns further east than the lattice of the deaths, so that buffers can lie
\* apart from each other.
Plane == {<<100 * i, 200 * j>> : i \in 0..(GridMax + 3), j \in 0..1}

\* a buffer as an area; an area as it is
AreaOf(g) ==
    IF g.kind = "Buffer"
    THEN [kind |-> "Area",
          interior |-> {q \in Plane : Dist2(q, g.at) < g.dist * g.dist},
          boundary |-> {q \in Plane : Dist2(q, g.at) = g.dist * g.dist}]
    ELSE g

\* all places of an area
Closed(a) == a.interior \cup a.boundary

\* Difference with the two objects taken in the other order
DifferenceReversed(this, other) ==
    LET a == AreaOf(other)
        b == AreaOf(this)
        inner == {q \in a.interior : q \notin Closed(b)}
    IN  [kind |-> "Area",
         interior |-> inner,
         boundary |-> {q \in Closed(a) : q \notin b.interior} \ inner]

\* this.difference(other): the points making up this object that do not make
\* up the other object
Difference(this, other) ==
    LET a == AreaOf(this)
        b == AreaOf(other)
        inner == {q \in a.interior : q \notin Closed(b)}
    IN  [kind |-> "Area",
         interior |-> inner,
         boundary |-> {q \in Closed(a) : q \notin b.interior} \ inner]

\* SymmetricDifference that keeps only the points of this object
SymmetricDifferenceOneSided(this, other) ==
    LET a == AreaOf(this)
        b == AreaOf(other)
        inner == {q \in a.interior : q \notin Closed(b)}
    IN  [kind |-> "Area",
         interior |-> inner,
         boundary |-> {q \in Closed(a) : q \notin b.interior} \ inner]

\* this.symmetric_difference(other): the points in this object not in the other,
\* and the points in the other not in this
SymmetricDifference(this, other) ==
    LET a == AreaOf(this)
        b == AreaOf(other)
        inner == {q \in a.interior : q \notin Closed(b)}
                    \cup {q \in b.interior : q \notin Closed(a)}
    IN  [kind |-> "Area",
         interior |-> inner,
         boundary |-> (a.boundary \cup b.boundary) \ inner]

\* Intersection that keeps the boundary of this object only
IntersectionOfFocal(this, other) ==
    LET a == AreaOf(this)
        b == AreaOf(other)
        inner == {q \in a.interior : q \in b.interior}
    IN  [kind |-> "Area",
         interior |-> inner,
         boundary |-> {q \in a.boundary : q \in Closed(b)} \ inner]

\* this.intersection(other): the points of this object that also belong to the
\* other
Intersection(this, other) ==
    LET a == AreaOf(this)
        b == AreaOf(other)
        inner == {q \in a.interior : q \in b.interior}
    IN  [kind |-> "Area",
         interior |-> inner,
         boundary |-> {q \in Closed(a) : q \in Closed(b)} \ inner]

\* this.union(other): the points of this object and of the other
Union(this, other) ==
    LET a == AreaOf(this)
        b == AreaOf(other)
        inner == a.interior \cup b.interior
    IN  [kind |-> "Area",
         interior |-> inner,
         boundary |-> (a.boundary \cup b.boundary) \ inner]

\* two buffers share area: their centres are less than the two distances apart
SharesArea(a, b) == Dist2(a.at, b.at) < (a.dist + b.dist) * (a.dist + b.dist)

\* the buffers of a list joined to those of `from` through buffers sharing area
RECURSIVE Joined(_, _)
Joined(geoms, from) ==
    LET more == from \cup {j \in DOMAIN geoms :
                             \E i \in from : SharesArea(geoms[i], geoms[j])}
    IN  IF more = from THEN from ELSE Joined(geoms, more)

\* UnaryUnion that leaves the last object of the list out
UnaryUnionButLast(geoms) ==
    LET kept == (DOMAIN geoms) \ {Len(geoms)}
        inner == UNION {AreaOf(geoms[i]).interior : i \in kept}
    IN  [kind |-> "Area",
         interior |-> inner,
         boundary |-> UNION {AreaOf(geoms[i]).boundary : i \in kept} \ inner,
         geom_type |-> IF Joined(geoms, {1}) = DOMAIN geoms
                       THEN "Polygon" ELSE "MultiPolygon"]

\* shapely.ops.unary_union(geoms) of a list of buffers: one Polygon when the
\* buffers hang together, a MultiPolygon of the separate parts when not
UnaryUnion(geoms) ==
    LET inner == UNION {AreaOf(geoms[i]).interior : i \in DOMAIN geoms}
    IN  [kind |-> "Area",
         interior |-> inner,
         boundary |-> UNION {AreaOf(geoms[i]).boundary : i \in DOMAIN geoms} \ inner,
         geom_type |-> IF Joined(geoms, {1}) = DOMAIN geoms
                       THEN "Polygon" ELSE "MultiPolygon"]

\* ------------------------------------------------------------------ frames
\* a (Geo)DataFrame read from a file or built from one: its CRS and its rows
\* by index 0..n-1; NoFrame is a name not assigned yet
NoFrame == [crs |-> NoCrs, rows |-> << >>]

\* the result of a join: rows are not unique by index, so they are a set
NoJoin == [crs |-> NoCrs, rows |-> {}]

NaN == -1

\* the missing value of a column, by the column's type
NaNOf(col) ==
    CASE col = "geometry" -> EmptyGeom
      [] col = "name" -> "NaN"
      [] OTHER -> NaN

Len0(rows) == Cardinality(DOMAIN rows)

\* frame.loc[:, frame.columns != col]
DropColumn(frame, col) ==
    [frame EXCEPT !.rows =
        [i \in DOMAIN frame.rows |->
            [c \in (DOMAIN frame.rows[i]) \ {col} |-> frame.rows[i][c]]]]

\* frame.rename(columns = {old: new})
RenameColumn(frame, old, new) ==
    [frame EXCEPT !.rows =
        [i \in DOMAIN frame.rows |->
            [c \in ((DOMAIN frame.rows[i]) \ {old}) \cup {new} |->
                IF c = new THEN frame.rows[i][old] ELSE frame.rows[i][c]]]]

\* AssignColumn that writes the new Id values into the Count column
AssignColumnMisnamed(frame, col, values) ==
    LET to == IF col = "Id" THEN "Count" ELSE col
    IN  [frame EXCEPT !.rows =
            [i \in DOMAIN frame.rows |->
                [c \in (DOMAIN frame.rows[i]) \cup {to} |->
                    IF c = to
                    THEN (IF i \in DOMAIN values THEN values[i] ELSE NaNOf(to))
                    ELSE frame.rows[i][c]]]]

\* frame[col] = values, values aligned on the index
AssignColumn(frame, col, values) ==
    [frame EXCEPT !.rows =
        [i \in DOMAIN frame.rows |->
            [c \in (DOMAIN frame.rows[i]) \cup {col} |->
                IF c = col
                THEN (IF i \in DOMAIN values THEN values[i] ELSE NaNOf(col))
                ELSE frame.rows[i][c]]]]

\* frame[col], a Series by index
Column(frame, col) == [i \in DOMAIN frame.rows |-> frame.rows[i][col]]

\* frame.buffer(d), a GeoSeries by index
BufferSeries(frame, d) ==
    [i \in DOMAIN frame.rows |-> Buffer(frame.rows[i].geometry, d)]

\* SetCrs that leaves the frame as it was
SetCrsLost(frame, e) == frame

\* frame.set_crs(epsg = e)
SetCrs(frame, e) == [frame EXCEPT !.crs = "EPSG:" \o ToString(e)]

\* the attribute columns of a frame (every column but the geometry)
AttributeColumns(frame) ==
    (UNION {DOMAIN frame.rows[i] : i \in DOMAIN frame.rows}) \ {"geometry"}

\* the pairs of row indexes (left, right) that satisfy the spatial relation
Matches(left_df, right_df, op) ==
    {m \in (DOMAIN left_df.rows) \X (DOMAIN right_df.rows) :
        Relation(op, left_df.rows[m[1]].geometry, right_df.rows[m[2]].geometry)}

\* one row of a join: the row `own` of the frame that gives index and geometry,
\* beside the attribute columns of the matching row `other` of the other frame
\* (missing values where there is no match, other_index = NaN)
JoinRow(index, own, other_name, other_index, other, other_columns) ==
    [c \in {"index", other_name} \cup (DOMAIN own) \cup other_columns |->
        CASE c = "index" -> index
          [] c = other_name -> other_index
          [] c \in DOMAIN own -> own[c]
          [] OTHER -> IF other_index = NaN THEN NaNOf(c) ELSE other[c]]

\* Sjoin whose left join drops the rows of left_df that match nothing
SjoinLeftDropsUnmatched(left_df, right_df, op, how) ==
    LET M == Matches(left_df, right_df, op)
        lcols == AttributeColumns(left_df)
        rcols == AttributeColumns(right_df)
        L(m) == JoinRow(m[1], left_df.rows[m[1]], "index_right", m[2],
                        right_df.rows[m[2]], rcols)
        R(m) == JoinRow(m[2], right_df.rows[m[2]], "index_left", m[1],
                        left_df.rows[m[1]], lcols)
        RightOnly(j) == JoinRow(j, right_df.rows[j], "index_left", NaN, << >>, lcols)
    IN  CASE how \in {"inner", "left"} ->
                [crs |-> left_df.crs, rows |-> {L(m) : m \in M}]
          [] how = "right" ->
                [crs |-> right_df.crs,
                 rows |-> {R(m) : m \in M} \cup
                          {RightOnly(j) : j \in {j \in DOMAIN right_df.rows :
                                             \A m \in M : m[2] # j}}]

\* Sjoin whose right join drops the rows of right_df that match nothing
SjoinRightDropsUnmatched(left_df, right_df, op, how) ==
    LET M == Matches(left_df, right_df, op)
        lcols == AttributeColumns(left_df)
        rcols == AttributeColumns(right_df)
        L(m) == JoinRow(m[1], left_df.rows[m[1]], "index_right", m[2],
                        right_df.rows[m[2]], rcols)
        R(m) == JoinRow(m[2], right_df.rows[m[2]], "index_left", m[1],
                        left_df.rows[m[1]], lcols)
        LeftOnly(i) == JoinRow(i, left_df.rows[i], "index_right", NaN, << >>, rcols)
    IN  CASE how = "inner" ->
                [crs |-> left_df.crs, rows |-> {L(m) : m \in M}]
          [] how = "left" ->
                [crs |-> left_df.crs,
                 rows |-> {L(m) : m \in M} \cup
                          {LeftOnly(i) : i \in {i \in DOMAIN left_df.rows :
                                            \A m \in M : m[1] # i}}]
          [] how = "right" ->
                [crs |-> right_df.crs, rows |-> {R(m) : m \in M}]

\* gpd.sjoin(left_df, right_df, op = op, how = how)
Sjoin(left_df, right_df, op, how) ==
    LET M == Matches(left_df, right_df, op)
        lcols == AttributeColumns(left_df)
        rcols == AttributeColumns(right_df)
        \* a matching pair seen from the left: left index and left geometry
        L(m) == JoinRow(m[1], left_df.rows[m[1]], "index_right", m[2],
                        right_df.rows[m[2]], rcols)
        \* a matching pair seen from the right: right index and right geometry
        R(m) == JoinRow(m[2], right_df.rows[m[2]], "index_left", m[1],
                        left_df.rows[m[1]], lcols)
        LeftOnly(i) == JoinRow(i, left_df.rows[i], "index_right", NaN, << >>, rcols)
        RightOnly(j) == JoinRow(j, right_df.rows[j], "index_left", NaN, << >>, lcols)
    IN  CASE how = "inner" ->
                [crs |-> left_df.crs, rows |-> {L(m) : m \in M}]
          [] how = "left" ->
                [crs |-> left_df.crs,
                 rows |-> {L(m) : m \in M} \cup
                          {LeftOnly(i) : i \in {i \in DOMAIN left_df.rows :
                                            \A m \in M : m[1] # i}}]
          [] how = "right" ->
                [crs |-> right_df.crs,
                 rows |-> {R(m) : m \in M} \cup
                          {RightOnly(j) : j \in {j \in DOMAIN right_df.rows :
                                             \A m \in M : m[2] # j}}]

\* what a call of gpd.sjoin sees of the CRS of its two frames
SjoinCall(result, left_df, right_df) ==
    [result |-> result, left_crs |-> left_df.crs, right_crs |-> right_df.crs]

\* ------------------------------------------------------------- aggregation
RECURSIVE SumOver(_, _)
\* the sum of column col over a set of rows
SumOver(rows, col) ==
    IF rows = {} THEN 0
    ELSE LET r == CHOOSE r \in rows : TRUE
         IN  r[col] + SumOver(rows \ {r}, col)

\* join[col].value_counts(): the number of rows per value; missing values are
\* not counted
ValueCounts(join, col) ==
    [v \in {r[col] : r \in join.rows} \ {NaNOf(col)} |->
        Cardinality({r \in join.rows : r[col] = v})]

\* join.groupby(by)[col].sum()
GroupBySum(join, by, col) ==
    [v \in {r[by] : r \in join.rows} \ {NaNOf(by)} |->
        SumOver({r \in join.rows : r[by] = v}, col)]

\* MergeOnIndex with the two Series taken in the other order
MergeOnIndexSwapped(a, b, name) ==
    [k \in (DOMAIN a) \cap (DOMAIN b) |->
        [c \in {name \o "_x", name \o "_y"} |->
            IF c = name \o "_x" THEN b[k] ELSE a[k]]]

\* pd.merge(a, b, right_index = True, left_index = True) of two Series that
\* have the same name: an inner join on the index, columns name_x and name_y
MergeOnIndex(a, b, name) ==
    [k \in (DOMAIN a) \cap (DOMAIN b) |->
        [c \in {name \o "_x", name \o "_y"} |->
            IF c = name \o "_x" THEN a[k] ELSE b[k]]]

\* table.rename(columns = {old1: new1, old2: new2})
RenameColumns(table, old1, new1, old2, new2) ==
    [k \in DOMAIN table |->
        [c \in {IF d = old1 THEN new1 ELSE IF d = old2 THEN new2 ELSE d :
                    d \in DOMAIN table[k]} |->
            IF c = new1 /\ old1 \in DOMAIN table[k] THEN table[k][old1]
            ELSE IF c = new2 /\ old2 \in DOMAIN table[k] THEN table[k][old2]
            ELSE table[k][c]]]

\* table.sum(): the total of every column
TableSum(table, col) ==
    LET RECURSIVE S(_)
        S(ks) == IF ks = {} THEN 0
                 ELSE LET k == CHOOSE k \in ks : TRUE
                      IN  table[k][col] + S(ks \ {k})
    IN  S(DOMAIN table)

\* ------------------------------------------------------------ the notebooks
\* the steps of SpatialJoins.ipynb that assign a name, in order (a frame or
\* table that is built and renamed at once is one step)
SpatialJoinsCells ==
    <<"read_file", "assign_Id", "buffer", "buffers",
      "deaths_within_buffers", "buffers_contains_deaths_inner",
      "buffers_contains_deaths_right", "dwb", "deaths_contain_buffers",
      "voronoi_frames", "regions_name", "deaths_within_voronoi_nocrs",
      "set_crs", "deaths_within_voronoi", "value_counts", "compareCounts",
      "groupby_sum", "compareSums">>

\* the code cells of Relations.ipynb that assign a name or call a function
RelationsCells ==
    <<"read_file", "buffer", "countBuffersContaining", "overlaps",
      "tidyBufferOverlaps">>

\* the code cells of Operations.ipynb that assign a name
OperationsCells ==
    <<"read_file", "buffer", "bufA_bufB", "AdiffB", "BdiffA", "AsdB", "AintB",
      "BintA", "AunionB", "unionBuffs", "unionOtherBuffs", "AdiffuOB">>

\* the cells of the Arribas-Bel et al. notebook that assign the street
\* segments, their weights and the spatial lag
ArribasBelCells ==
    <<"read_file", "Network", "contiguityweights", "lag_spatial", "neigh", "mean">>

CellsOf(nb) ==
    CASE nb = "SpatialJoins" -> SpatialJoinsCells
      [] nb = "Relations" -> RelationsCells
      [] nb = "Operations" -> OperationsCells
      [] nb = "ArribasBel" -> ArribasBelCells

\* pump locations of Operations.ipynb: distinct places of the plane
OperationsLayouts ==
    {s \in [1..NumPumps -> Plane] : \A i, j \in 1..NumPumps : i < j => s[i] # s[j]}

\* the names a caller may pass for a pump: those of the file and one that is
\* in no row of it
WrongName == "Broad Street Pump"

ArgNames == {PumpNames[i] : i \in 1..NumPumps} \cup {WrongName}

\* pumps.shp with the pumps at the locations s (its x and y columns repeat the
\* coordinates of the geometry and are read from it)
PumpsFile(s) ==
    [crs |-> CrsOfFiles,
     rows |-> [i \in 0..(NumPumps - 1) |->
                [name |-> PumpNames[i + 1], geometry |-> Point(s[i + 1])]]]

\* Cholera_Deaths.shp with deaths at the locations s and the counts c; the Id
\* column of the file holds 0 in every row
DeathsFile(s, c) ==
    [crs |-> CrsOfFiles,
     rows |-> [i \in 0..(Len(s) - 1) |->
                [Id |-> 0, Count |-> c[i + 1], geometry |-> Point(s[i + 1])]]]

\* ------------------------------------------------- the names of the notebooks
\* Every code cell of every notebook, in order, as the names it reads before it
\* binds them itself (reads) and the names it binds (assigns).  A name read in
\* the body of a function is read by the cells that call the function.  The
\* built-in names of Python are bound in every kernel and are left out.

\* the code cells of the Interpolation notebook
InterpolationCode ==
    <<
      [reads |-> {}, assigns |-> {"gpd", "plt", "voronoi", "voronoi_frames", "np",
          "ma", "griddata"}],
      [reads |-> {"gpd"}, assigns |-> {"houses"}],
      [reads |-> {"houses"}, assigns |-> {}],
      [reads |-> {"plt", "houses"}, assigns |-> {"f", "ax"}],
      [reads |-> {"houses"}, assigns |-> {"hSample"}],
      [reads |-> {"plt", "houses", "hSample"}, assigns |-> {"f", "ax"}],
      [reads |-> {"hSample"}, assigns |-> {"x", "y", "z"}],
      [reads |-> {"np"}, assigns |-> {"xi", "yi"}],
      [reads |-> {"griddata", "x", "y", "z", "xi", "yi"}, assigns |-> {"zi"}],
      [reads |-> {"plt", "xi", "yi", "zi", "hSample"}, assigns |-> {"f", "ax"}],
      [reads |-> {}, assigns |-> {}]
    >>

\* the code cells of SpatialJoins.ipynb
SpatialJoinsCode ==
    <<
      [reads |-> {}, assigns |-> {"gpd", "shapely", "plt", "mpl", "voronoi",
          "voronoi_frames", "np", "pd"}],
      [reads |-> {"gpd"}, assigns |-> {"pumps", "blocks", "deaths"}],
      [reads |-> {"deaths"}, assigns |-> {}],
      [reads |-> {"deaths"}, assigns |-> {}],
      [reads |-> {"deaths"}, assigns |-> {}],
      [reads |-> {"plt", "blocks", "pumps", "deaths"}, assigns |-> {"f", "ax"}],
      [reads |-> {"pumps"}, assigns |-> {}],
      [reads |-> {"plt", "blocks", "pumps", "deaths"}, assigns |-> {"f", "ax"}],
      [reads |-> {"pumps"}, assigns |-> {}],
      [reads |-> {"pumps"}, assigns |-> {"buffers"}],
      [reads |-> {"buffers"}, assigns |-> {"buffers"}],
      [reads |-> {"gpd", "deaths", "buffers"}, assigns |->
          {"deaths_within_buffers"}],
      [reads |-> {"gpd", "buffers", "deaths"}, assigns |->
          {"buffers_contains_deaths"}],
      [reads |-> {"gpd", "buffers", "deaths"}, assigns |->
          {"buffers_contains_deaths"}],
      [reads |-> {"buffers_contains_deaths", "deaths_within_buffers"}, assigns |->
          {}],
      [reads |-> {"plt", "blocks", "pumps", "deaths", "buffers_contains_deaths",
          "deaths_within_buffers"}, assigns |-> {"f", "axes", "ax"}],
      [reads |-> {"gpd", "deaths", "buffers"}, assigns |-> {"dwb_inner", "dwb_left",
          "dwb_right"}],
      [reads |-> {"dwb_inner", "dwb_left", "dwb_right"}, assigns |-> {}],
      [reads |-> {"plt", "dwb_inner", "dwb_left", "dwb_right"}, assigns |-> {"f",
          "axes"}],
      [reads |-> {"gpd", "deaths", "buffers"}, assigns |->
          {"deaths_contain_buffers"}],
      [reads |-> {"deaths_contain_buffers"}, assigns |-> {}],
      [reads |-> {"deaths"}, assigns |-> {}],
      [reads |-> {"deaths_within_buffers"}, assigns |-> {}],
      [reads |-> {"plt", "blocks", "pumps", "deaths", "deaths_within_buffers",
          "buffers"}, assigns |-> {"f", "axes", "ax"}],
      [reads |-> {"deaths_within_buffers"}, assigns |-> {}],
      [reads |-> {"deaths_within_buffers", "plt"}, assigns |-> {}],
      [reads |-> {"np", "pumps", "voronoi_frames"}, assigns |-> {"points",
          "regions_df", "vertices_df"}],
      [reads |-> {"pumps", "regions_df", "vertices_df"}, assigns |-> {}],
      [reads |-> {"plt", "blocks", "deaths", "regions_df", "vertices_df"}, assigns
          |-> {"f", "ax"}],
      [reads |-> {"gpd", "deaths", "regions_df"}, assigns |->
          {"deaths_within_voronoi"}],
      [reads |-> {"regions_df"}, assigns |-> {}],
      [reads |-> {"regions_df"}, assigns |-> {}],
      [reads |-> {"deaths"}, assigns |-> {}],
      [reads |-> {"regions_df"}, assigns |-> {"regions_df"}],
      [reads |-> {"regions_df"}, assigns |-> {}],
      [reads |-> {"gpd", "deaths", "regions_df"}, assigns |->
          {"deaths_within_voronoi"}],
      [reads |-> {"deaths", "deaths_within_voronoi"}, assigns |-> {}],
      [reads |-> {"plt", "blocks", "pumps", "deaths", "regions_df",
          "deaths_within_voronoi"}, assigns |-> {"f", "ax"}],
      [reads |-> {"deaths_within_voronoi", "plt", "blocks", "pumps", "regions_df",
          "mpl"}, assigns |-> {"pumpNames", "f", "ax", "idx", "name"}],
      [reads |-> {"deaths_within_voronoi"}, assigns |-> {}],
      [reads |-> {"deaths_within_voronoi", "plt"}, assigns |-> {}],
      [reads |-> {"deaths_within_voronoi", "deaths_within_buffers"}, assigns |->
          {"vcounts", "bcounts"}],
      [reads |-> {"pd", "bcounts", "vcounts"}, assigns |-> {"compareCounts"}],
      [reads |-> {"compareCounts"}, assigns |-> {"compareCounts"}],
      [reads |-> {"compareCounts", "plt"}, assigns |-> {}],
      [reads |-> {"deaths_within_voronoi", "deaths_within_buffers"}, assigns |->
          {"vdeaths", "bdeaths"}],
      [reads |-> {"pd", "bdeaths", "vdeaths"}, assigns |-> {"compareSums"}],
      [reads |-> {"compareSums", "plt"}, assigns |-> {}],
      [reads |-> {"deaths"}, assigns |-> {}],
      [reads |-> {"compareSums"}, assigns |-> {}],
      [reads |-> {}, assigns |-> {}]
    >>

\* the code cells of the Spatial Weights notebook
SpatialWeightsCode ==
    <<
      [reads |-> {}, assigns |-> {"gpd", "pd", "np", "weights", "voronoi",
          "voronoi_frames", "plt"}],
      [reads |-> {"gpd"}, assigns |-> {"pumps", "blocks"}],
      [reads |-> {"plt", "blocks", "pumps"}, assigns |-> {"f", "ax", "index",
          "row"}],
      [reads |-> {"weights", "pumps"}, assigns |-> {"pumpsW"}],
      [reads |-> {"pumpsW"}, assigns |-> {}],
      [reads |-> {"weights", "pumps"}, assigns |-> {"pumpsW"}],
      [reads |-> {"pumpsW"}, assigns |-> {}],
      [reads |-> {"pumpsW"}, assigns |-> {}],
      [reads |-> {"pumpsW"}, assigns |-> {}],
      [reads |-> {"pumpsW"}, assigns |-> {}],
      [reads |-> {"pd", "pumpsW"}, assigns |-> {"pumpsWmat"}],
      [reads |-> {"plt", "blocks", "pumps", "pumpsW"}, assigns |-> {"f", "ax",
          "index", "row"}],
      [reads |-> {"np", "pumps", "voronoi_frames"}, assigns |-> {"points",
          "regions_df", "vertices_df"}],
      [reads |-> {"plt", "blocks", "pumps", "pumpsW", "regions_df"}, assigns |->
          {"f", "ax"}],
      [reads |-> {"weights", "pumps"}, assigns |-> {"pumpsKNN3"}],
      [reads |-> {"pumpsKNN3"}, assigns |-> {}],
      [reads |-> {"pd", "pumpsKNN3"}, assigns |-> {"pumpsKNN3mat"}],
      [reads |-> {"plt", "blocks", "pumps", "pumpsKNN3", "regions_df"}, assigns |->
          {"f", "ax"}],
      [reads |-> {"plt", "blocks", "pumps", "pumpsKNN3", "regions_df"}, assigns |->
          {"f", "ax", "index", "row", "b"}],
      [reads |-> {"weights", "pumps"}, assigns |-> {"pumpsK"}],
      [reads |-> {"pumpsK"}, assigns |-> {}],
      [reads |-> {"pd", "pumpsK"}, assigns |-> {"pumpsKmat"}],
      [reads |-> {"pumpsK"}, assigns |-> {}],
      [reads |-> {"pumpsK"}, assigns |-> {}],
      [reads |-> {"weights", "pumps"}, assigns |-> {"pumpsK270"}],
      [reads |-> {"pumpsK270"}, assigns |-> {}],
      [reads |-> {"pumpsK270"}, assigns |-> {}],
      [reads |-> {"pd", "pumpsK270"}, assigns |-> {"pumpsK270mat"}],
      [reads |-> {"weights", "pumps", "pd"}, assigns |-> {"pumpsKu", "pumpsKumat"}],
      [reads |-> {"weights", "pumps", "pd"}, assigns |-> {"pumpsKu270",
          "pumpsKu270mat"}],
      [reads |-> {}, assigns |-> {"plotKernel"}],
      [reads |-> {"plt", "blocks", "plotKernel", "pumpsK", "regions_df", "np", "pd",
          "pumps"}, assigns |-> {"fig", "ax"}],
      [reads |-> {"plt", "blocks", "weights", "pumps", "plotKernel", "regions_df",
          "np", "pd"}, assigns |-> {"fig", "axes", "fList", "ax", "f", "myKernel"}],
      [reads |-> {"plt", "blocks", "weights", "pumps", "plotKernel", "regions_df",
          "np", "pd"}, assigns |-> {"f", "axes", "bList", "ax", "b", "myKernel"}],
      [reads |-> {"plt", "blocks", "weights", "pumps", "plotKernel", "regions_df",
          "np", "pd"}, assigns |-> {"fig", "axes", "fList", "ax", "f", "myKernel"}]
    >>

\* the code cells of Relations.ipynb
RelationsCode ==
    <<
      [reads |-> {}, assigns |-> {"gpd", "shapely", "plt"}],
      [reads |-> {"gpd"}, assigns |-> {"pumps", "blocks"}],
      [reads |-> {"pumps"}, assigns |-> {}],
      [reads |-> {"pumps"}, assigns |-> {}],
      [reads |-> {"pumps"}, assigns |-> {}],
      [reads |-> {"blocks"}, assigns |-> {}],
      [reads |-> {"blocks"}, assigns |-> {}],
      [reads |-> {"plt", "blocks", "pumps"}, assigns |-> {"f", "ax"}],
      [reads |-> {"pumps"}, assigns |-> {"p0df_a", "p0df_b"}],
      [reads |-> {"p0df_a", "p0df_b"}, assigns |-> {}],
      [reads |-> {"plt", "blocks", "pumps"}, assigns |-> {"f", "ax"}],
      [reads |-> {"pumps"}, assigns |-> {"p0s_a", "p0s_b"}],
      [reads |-> {"p0s_a", "p0s_b"}, assigns |-> {}],
      [reads |-> {"pumps"}, assigns |-> {"p0g_a", "p0g_b"}],
      [reads |-> {"p0g_a", "p0g_b"}, assigns |-> {}],
      [reads |-> {"pumps"}, assigns |-> {}],
      [reads |-> {"pumps"}, assigns |-> {"A", "B"}],
      [reads |-> {"pumps"}, assigns |-> {"A", "B"}],
      [reads |-> {"pumps"}, assigns |-> {"pointA", "pointB"}],
      [reads |-> {"pointA", "pointB"}, assigns |-> {}],
      [reads |-> {"pumps"}, assigns |-> {"bsPump", "i"}],
      [reads |-> {"pumps"}, assigns |-> {"focalPump", "index", "row"}],
      [reads |-> {"pumps"}, assigns |-> {}],
      [reads |-> {"pumps"}, assigns |-> {}],
      [reads |-> {"pumps"}, assigns |-> {}],
      [reads |-> {"plt", "blocks", "pumps"}, assigns |-> {"f", "ax"}],
      [reads |-> {"pumps"}, assigns |-> {}],
      [reads |-> {}, assigns |-> {}],
      [reads |-> {"pumps"}, assigns |-> {"focalName", "focalPump", "i"}],
      [reads |-> {"pumps"}, assigns |-> {"focalName", "focalPump", "index", "row"}],
      [reads |-> {"pumps"}, assigns |-> {"focalName", "focalPump", "index", "row"}],
      [reads |-> {}, assigns |-> {"countBuffersContaining"}],
      [reads |-> {"countBuffersContaining", "pumps"}, assigns |-> {}],
      [reads |-> {"countBuffersContaining", "pumps"}, assigns |-> {}],
      [reads |-> {"plt", "blocks", "pumps"}, assigns |-> {"f", "ax"}],
      [reads |-> {"pumps"}, assigns |-> {"randomPump", "randomBuffer", "bsBuffer"}],
      [reads |-> {}, assigns |-> {"tidyBufferOverlaps"}],
      [reads |-> {"tidyBufferOverlaps", "pumps"}, assigns |-> {}],
      [reads |-> {"plt", "blocks", "pumps"}, assigns |-> {"f", "ax", "index",
          "row"}],
      [reads |-> {}, assigns |-> {}]
    >>

\* the code cells of Operations.ipynb
OperationsCode ==
    <<
      [reads |-> {}, assigns |-> {"shapely", "gpd", "plt", "pygeos"}],
      [reads |-> {"gpd"}, assigns |-> {"pumps", "blocks"}],
      [reads |-> {"plt", "blocks", "pumps"}, assigns |-> {"f", "ax"}],
      [reads |-> {"pumps"}, assigns |-> {}],
      [reads |-> {"pumps"}, assigns |-> {}],
      [reads |-> {"plt", "blocks", "pumps"}, assigns |-> {"f", "ax"}],
      [reads |-> {}, assigns |-> {"plot_operations_basemap"}],
      [reads |-> {"pumps"}, assigns |-> {"bufA", "bufB"}],
      [reads |-> {"bufA", "bufB"}, assigns |-> {"AdiffB"}],
      [reads |-> {"gpd", "AdiffB"}, assigns |-> {}],
      [reads |-> {"plot_operations_basemap", "AdiffB", "plt", "blocks", "pumps",
          "gpd"}, assigns |-> {}],
      [reads |-> {"bufB", "bufA"}, assigns |-> {"BdiffA"}],
      [reads |-> {"plot_operations_basemap", "BdiffA", "plt", "blocks", "pumps",
          "gpd"}, assigns |-> {}],
      [reads |-> {"bufA", "bufB"}, assigns |-> {"AsdB"}],
      [reads |-> {"plot_operations_basemap", "AsdB", "plt", "blocks", "pumps",
          "gpd"}, assigns |-> {}],
      [reads |-> {"bufA", "bufB"}, assigns |-> {"AintB"}],
      [reads |-> {"plot_operations_basemap", "AintB", "plt", "blocks", "pumps",
          "gpd"}, assigns |-> {}],
      [reads |-> {"bufB", "bufA", "plot_operations_basemap", "plt", "blocks",
          "pumps", "gpd"}, assigns |-> {"BintA"}],
      [reads |-> {"bufA", "bufB"}, assigns |-> {"AunionB"}],
      [reads |-> {"plot_operations_basemap", "AunionB", "plt", "blocks", "pumps",
          "gpd"}, assigns |-> {}],
      [reads |-> {"gpd", "AunionB"}, assigns |-> {}],
      [reads |-> {"shapely", "pumps", "plot_operations_basemap", "plt", "blocks",
          "gpd"}, assigns |-> {"unionBuffs"}],
      [reads |-> {"gpd", "unionBuffs"}, assigns |-> {}],
      [reads |-> {"gpd", "pumps"}, assigns |-> {}],
      [reads |-> {"pumps", "shapely", "gpd"}, assigns |-> {"OtherBuffs",
          "unionOtherBuffs"}],
      [reads |-> {"plt", "blocks", "pumps", "gpd", "unionOtherBuffs", "bufA"},
          assigns |-> {"f", "ax"}],
      [reads |-> {"bufA", "unionOtherBuffs"}, assigns |-> {"AdiffuOB"}],
      [reads |-> {"plt", "blocks", "pumps", "gpd", "unionOtherBuffs", "AdiffuOB"},
          assigns |-> {"f", "ax"}]
    >>

\* the code cells of Voronoi.ipynb
VoronoiCode ==
    <<
      [reads |-> {}, assigns |-> {"gpd", "plt", "voronoi", "voronoi_frames", "np"}],
      [reads |-> {"gpd"}, assigns |-> {"pumps", "blocks"}],
      [reads |-> {"blocks"}, assigns |-> {}],
      [reads |-> {"pumps"}, assigns |-> {}],
      [reads |-> {"plt", "blocks", "pumps"}, assigns |-> {"f", "ax"}],
      [reads |-> {"np", "pumps"}, assigns |-> {"points"}],
      [reads |-> {"points"}, assigns |-> {}],
      [reads |-> {"points"}, assigns |-> {}],
      [reads |-> {"np", "pumps"}, assigns |-> {"points"}],
      [reads |-> {"points"}, assigns |-> {}],
      [reads |-> {"voronoi", "points"}, assigns |-> {"results"}],
      [reads |-> {"results"}, assigns |-> {}],
      [reads |-> {"results"}, assigns |-> {}],
      [reads |-> {"results"}, assigns |-> {}],
      [reads |-> {"results"}, assigns |-> {}],
      [reads |-> {"voronoi", "points"}, assigns |-> {"regions", "vertices"}],
      [reads |-> {"regions"}, assigns |-> {}],
      [reads |-> {"vertices"}, assigns |-> {}],
      [reads |-> {"voronoi_frames", "points"}, assigns |-> {"results_df"}],
      [reads |-> {"results_df"}, assigns |-> {}],
      [reads |-> {"results_df"}, assigns |-> {}],
      [reads |-> {"results_df"}, assigns |-> {}],
      [reads |-> {"voronoi_frames", "points"}, assigns |-> {"regions_df",
          "vertices_df"}],
      [reads |-> {"regions_df"}, assigns |-> {}],
      [reads |-> {"vertices_df"}, assigns |-> {}],
      [reads |-> {"plt", "blocks", "regions_df", "vertices_df"}, assigns |-> {"f",
          "ax"}],
      [reads |-> {"voronoi_frames", "points", "plt", "blocks", "vertices_df"},
          assigns |-> {"regions_df_noclip", "vertices_df_noclip", "f", "ax"}],
      [reads |-> {"plt", "blocks", "regions_df_noclip", "vertices_df_noclip"},
          assigns |-> {"f", "ax"}],
      [reads |-> {"regions_df_noclip"}, assigns |-> {}],
      [reads |-> {"regions_df_noclip"}, assigns |-> {"regions_df_noclip"}],
      [reads |-> {"plt", "blocks", "regions_df_noclip", "vertices_df_noclip"},
          assigns |-> {"f", "ax"}],
      [reads |-> {}, assigns |-> {}]
    >>

\* the code cells of Arribas-Bel_etal_2017.ipynb
ArribasBelCode ==
    <<
      [reads |-> {}, assigns |-> {"sns", "pd", "lps", "gpd", "np", "plt"}],
      [reads |-> {"gpd"}, assigns |-> {"pumps", "blocks", "js"}],
      [reads |-> {"js"}, assigns |-> {}],
      [reads |-> {"js"}, assigns |-> {}],
      [reads |-> {"plt", "blocks", "js", "np", "pumps"}, assigns |-> {"f", "ax",
          "xys"}],
      [reads |-> {}, assigns |-> {"sp"}],
      [reads |-> {"sp"}, assigns |-> {"ntw"}],
      [reads |-> {"ntw", "js"}, assigns |-> {"w"}],
      [reads |-> {"w"}, assigns |-> {}],
      [reads |-> {"lps", "w", "js"}, assigns |-> {}],
      [reads |-> {"js"}, assigns |-> {}],
      [reads |-> {"w"}, assigns |-> {}],
      [reads |-> {"js", "w"}, assigns |-> {"neigh"}],
      [reads |-> {"neigh"}, assigns |-> {}],
      [reads |-> {"js"}, assigns |-> {}],
      [reads |-> {"lps", "w", "js"}, assigns |-> {}],
      [reads |-> {"js"}, assigns |-> {}]
    >>

AllNotebooks ==
    {"Interpolation", "SpatialJoins", "SpatialWeights", "Relations", "Operations",
     "Voronoi", "ArribasBel"}

CodeOf(nb) ==
    CASE nb = "Interpolation" -> InterpolationCode
      [] nb = "SpatialJoins" -> SpatialJoinsCode
      [] nb = "SpatialWeights" -> SpatialWeightsCode
      [] nb = "Relations" -> RelationsCode
      [] nb = "Operations" -> OperationsCode
      [] nb = "Voronoi" -> VoronoiCode
      [] nb = "ArribasBel" -> ArribasBelCode

\* Bind that keeps only the names of the last cell
BindForgets(names, cell) == cell.assigns

\* the names bound in the kernel after a cell has run
Bind(names, cell) == names \cup cell.assigns

VARIABLES
    notebook,                \* the notebook this kernel runs
    pc,                      \* the number of the next cell to run
    disk,                    \* the shapefiles on disk
    pumps, deaths,           \* the frames read from the files
    buffers,
    deaths_within_buffers, buffers_contains_deaths,
    dwb_inner, dwb_left, dwb_right,
    deaths_contain_buffers,
    regions_df, vertices_df,
    deaths_within_voronoi,
    vcounts, bcounts, compareCounts,
    vdeaths, bdeaths, compareSums,
    sjoin_calls,             \* the calls of gpd.sjoin so far, with the CRS they saw
    call,                    \* the last call of a function of the notebook
    out,                     \* the lines the last cell printed or displayed
    randomPump, randomBuffer, bsBuffer,
    bufA, bufB, AdiffB, BdiffA, AsdB, AintB, BintA, AunionB,
    unionBuffs, OtherBuffs, unionOtherBuffs, AdiffuOB,
    wKernel, plotFocal,      \* the arguments wKernel and focal of plotKernel
    labs, full_matrix, cats, \* what plotKernel builds
    js, ntw, w, neigh,       \* the street segments, their network and weights
    bound,                   \* the names bound in the kernel
    unbound                  \* the names a cell read while they were not bound

frames == <<pumps, deaths, buffers, regions_df, vertices_df>>

joins == <<deaths_within_buffers, buffers_contains_deaths, dwb_inner, dwb_left,
           dwb_right, deaths_contain_buffers, deaths_within_voronoi, sjoin_calls>>

tables == <<vcounts, bcounts, compareCounts, vdeaths, bdeaths, compareSums>>

samples == <<randomPump, randomBuffer, bsBuffer>>

\* the names that only some of the notebooks assign
kernel == <<bound, unbound>>

operations == <<bufA, bufB, AdiffB, BdiffA, AsdB, AintB, BintA, AunionB,
                unionBuffs, OtherBuffs, unionOtherBuffs, AdiffuOB>>

plot == <<wKernel, plotFocal, labs, full_matrix, cats>>

\* the names of the street network and its spatial lag
lag == <<js, ntw, w, neigh>>

others == <<samples, kernel, operations, plot, lag>>

vars == <<notebook, pc, disk, frames, joins, tables, call, out, others>>

Cell == IF pc <= Len(CellsOf(notebook)) THEN CellsOf(notebook)[pc] ELSE "end"

\* a kernel just started: no name of a notebook is assigned
FreshKernel ==
    /\ pumps = NoFrame /\ deaths = NoFrame /\ buffers = NoFrame
    /\ regions_df = NoFrame /\ vertices_df = NoFrame
    /\ deaths_within_buffers = NoJoin /\ buffers_contains_deaths = NoJoin
    /\ dwb_inner = NoJoin /\ dwb_left = NoJoin /\ dwb_right = NoJoin
    /\ deaths_contain_buffers = NoJoin /\ deaths_within_voronoi = NoJoin
    /\ vcounts = << >> /\ bcounts = << >> /\ compareCounts = << >>
    /\ vdeaths = << >> /\ bdeaths = << >> /\ compareSums = << >>
    /\ sjoin_calls = << >>
    /\ call = << >>
    /\ out = << >>
    /\ randomPump = NoFrame /\ randomBuffer = EmptyGeom /\ bsBuffer = EmptyGeom
    /\ bound = {} /\ unbound = {}
    /\ labs = << >> /\ full_matrix = << >> /\ cats = << >>
    /\ js = NoFrame /\ ntw = << >> /\ w = << >> /\ neigh = << >>
    /\ bufA = EmptyGeom /\ bufB = EmptyGeom
    /\ AdiffB = EmptyGeom /\ BdiffA = EmptyGeom /\ AsdB = EmptyGeom
    /\ AintB = EmptyGeom /\ BintA = EmptyGeom /\ AunionB = EmptyGeom
    /\ unionBuffs = EmptyGeom /\ OtherBuffs = << >>
    /\ unionOtherBuffs = EmptyGeom /\ AdiffuOB = EmptyGeom

Init ==
    /\ pc = 1
    /\ \/ /\ notebook = "SpatialJoins"
          /\ \E s \in SortedPumpLayouts, d \in DeathLayouts :
               \E c \in [DOMAIN d -> Counts] :
                  disk = [pumps |-> PumpsFile(s), deaths |-> DeathsFile(d, c)]
       \/ /\ notebook = "Relations"
          /\ \E s \in PumpLayouts : disk = [pumps |-> PumpsFile(s)]
    /\ FreshKernel
    /\ wKernel = << >> /\ plotFocal = ""

\* pumps = gpd.read_file(..pumps.shp); deaths = gpd.read_file(..Cholera_Deaths.shp)
\* (Relations.ipynb reads no deaths)
ReadFile ==
    /\ Cell = "read_file"
    /\ pumps' = disk.pumps
    /\ deaths' = IF notebook = "SpatialJoins" THEN disk.deaths ELSE deaths
    /\ pc' = pc + 1
    /\ UNCHANGED <<notebook, disk, buffers, regions_df, vertices_df, joins, tables, call, out, others>>

\* deaths['Id'] = [i for i in range(len(deaths['Id']))]
AssignId ==
    /\ Cell = "assign_Id"
    /\ deaths' = AssignColumn(deaths, "Id", [i \in 0..(Len0(deaths.rows) - 1) |-> i])
    /\ pc' = pc + 1
    /\ UNCHANGED <<notebook, disk, pumps, buffers, regions_df, vertices_df, joins,
                   tables, call, out, others>>

\* pumps['buffer'] = pumps.buffer(200)
BufferPumps ==
    /\ Cell = "buffer"
    /\ pumps' = AssignColumn(pumps, "buffer", BufferSeries(pumps, BufferDist))
    /\ pc' = pc + 1
    /\ UNCHANGED <<notebook, disk, deaths, buffers, regions_df, vertices_df, joins,
                   tables, call, out, others>>

\* buffers = pumps.loc[:, pumps.columns != 'geometry']
\* buffers = buffers.rename(columns = {'buffer': 'geometry'})
MakeBuffers ==
    /\ Cell = "buffers"
    /\ buffers' = RenameColumn(DropColumn(pumps, "geometry"), "buffer", "geometry")
    /\ pc' = pc + 1
    /\ UNCHANGED <<notebook, disk, pumps, deaths, regions_df, vertices_df, joins,
                   tables, call, out, others>>

\* deaths_within_buffers = gpd.sjoin(deaths, buffers, op='within', how='inner')
DeathsWithinBuffers ==
    /\ Cell = "deaths_within_buffers"
    /\ deaths_within_buffers' = Sjoin(deaths, buffers, "within", "inner")
    /\ sjoin_calls' = Append(sjoin_calls,
                             SjoinCall("deaths_within_buffers", deaths, buffers))
    /\ pc' = pc + 1
    /\ UNCHANGED <<notebook, disk, frames, buffers_contains_deaths, dwb_inner,
                   dwb_left, dwb_right, deaths_contain_buffers,
                   deaths_within_voronoi, tables, call, out, others>>

\* buffers_contains_deaths = gpd.sjoin(buffers, deaths, op='contains', how='inner')
BuffersContainsDeathsInner ==
    /\ Cell = "buffers_contains_deaths_inner"
    /\ buffers_contains_deaths' = Sjoin(buffers, deaths, "contains", "inner")
    /\ sjoin_calls' = Append(sjoin_calls,
                             SjoinCall("buffers_contains_deaths", buffers, deaths))
    /\ pc' = pc + 1
    /\ UNCHANGED <<notebook, disk, frames, deaths_within_buffers, dwb_inner,
                   dwb_left, dwb_right, deaths_contain_buffers,
                   deaths_within_voronoi, tables, call, out, others>>

\* buffers_contains_deaths = gpd.sjoin(buffers, deaths, op='contains', how='right')
BuffersContainsDeathsRight ==
    /\ Cell = "buffers_contains_deaths_right"
    /\ buffers_contains_deaths' = Sjoin(buffers, deaths, "contains", "right")
    /\ sjoin_calls' = Append(sjoin_calls,
                             SjoinCall("buffers_contains_deaths", buffers, deaths))
    /\ pc' = pc + 1
    /\ UNCHANGED <<notebook, disk, frames, deaths_within_buffers, dwb_inner,
                   dwb_left, dwb_right, deaths_contain_buffers,
                   deaths_within_voronoi, tables, call, out, others>>

\* dwb_inner, dwb_left, dwb_right = gpd.sjoin(deaths, buffers, op='within', how=..)
CompareJoinTypes ==
    /\ Cell = "dwb"
    /\ dwb_inner' = Sjoin(deaths, buffers, "within", "inner")
    /\ dwb_left' = Sjoin(deaths, buffers, "within", "left")
    /\ dwb_right' = Sjoin(deaths, buffers, "within", "right")
    /\ sjoin_calls' = sjoin_calls \o <<SjoinCall("dwb_inner", deaths, buffers),
                                       SjoinCall("dwb_left", deaths, buffers),
                                       SjoinCall("dwb_right", deaths, buffers)>>
    /\ pc' = pc + 1
    /\ UNCHANGED <<notebook, disk, frames, deaths_within_buffers,
                   buffers_contains_deaths, deaths_contain_buffers,
                   deaths_within_voronoi, tables, call, out, others>>

\* deaths_contain_buffers = gpd.sjoin(deaths, buffers, op='contains', how='inner')
DeathsContainBuffers ==
    /\ Cell = "deaths_contain_buffers"
    /\ deaths_contain_buffers' = Sjoin(deaths, buffers, "contains", "inner")
    /\ sjoin_calls' = Append(sjoin_calls,
                             SjoinCall("deaths_contain_buffers", deaths, buffers))
    /\ pc' = pc + 1
    /\ UNCHANGED <<notebook, disk, frames, deaths_within_buffers,
                   buffers_contains_deaths, dwb_inner, dwb_left, dwb_right,
                   deaths_within_voronoi, tables, call, out, others>>

\* VoronoiRegions with the polygons in the reverse of the order of the points
VoronoiRegionsReversed(points) ==
    [crs |-> NoCrs,
     rows |-> [i \in DOMAIN points |->
                [geometry |-> Region(points, Cardinality(DOMAIN points) - 1 - i)]]]

\* voronoi_frames(points, clip='none'): one Thiessen polygon per point, in the
\* order of the points, and the points themselves; neither frame has a CRS
VoronoiRegions(points) ==
    [crs |-> NoCrs,
     rows |-> [i \in DOMAIN points |-> [geometry |-> Region(points, i)]]]

VoronoiVertices(points) ==
    [crs |-> NoCrs,
     rows |-> [i \in DOMAIN points |-> [geometry |-> Point(points[i])]]]

\* points = np.vstack([pumps['x'], pumps['y']]).T
\* regions_df, vertices_df = voronoi_frames(points, clip='none')
VoronoiFrames ==
    /\ Cell = "voronoi_frames"
    /\ LET points == [i \in DOMAIN pumps.rows |-> pumps.rows[i].geometry.at]
       IN  /\ regions_df' = VoronoiRegions(points)
           /\ vertices_df' = VoronoiVertices(points)
    /\ pc' = pc + 1
    /\ UNCHANGED <<notebook, disk, pumps, deaths, buffers, joins, tables, call, out, others>>

\* regions_df['name'] = pumps['name']; vertices_df['name'] = pumps['name']
NameRegions ==
    /\ Cell = "regions_name"
    /\ regions_df' = AssignColumn(regions_df, "name", Column(pumps, "name"))
    /\ vertices_df' = AssignColumn(vertices_df, "name", Column(pumps, "name"))
    /\ pc' = pc + 1
    /\ UNCHANGED <<notebook, disk, pumps, deaths, buffers, joins, tables, call, out, others>>

\* deaths_within_voronoi = gpd.sjoin(deaths, regions_df, op='within', how='inner')
\* (the cell is in the notebook twice: before and after regions_df.set_crs)
DeathsWithinVoronoi ==
    /\ Cell \in {"deaths_within_voronoi_nocrs", "deaths_within_voronoi"}
    /\ deaths_within_voronoi' = Sjoin(deaths, regions_df, "within", "inner")
    /\ sjoin_calls' = Append(sjoin_calls,
                             SjoinCall("deaths_within_voronoi", deaths, regions_df))
    /\ pc' = pc + 1
    /\ UNCHANGED <<notebook, disk, frames, deaths_within_buffers,
                   buffers_contains_deaths, dwb_inner, dwb_left, dwb_right,
                   deaths_contain_buffers, tables, call, out, others>>

\* regions_df = regions_df.set_crs(epsg=27700)
SetRegionsCrs ==
    /\ Cell = "set_crs"
    /\ regions_df' = SetCrs(regions_df, Epsg)
    /\ pc' = pc + 1
    /\ UNCHANGED <<notebook, disk, pumps, deaths, buffers, vertices_df, joins,
                   tables, call, out, others>>

\* vcounts = deaths_within_voronoi["name"].value_counts()
\* bcounts = deaths_within_buffers["name"].value_counts()
CountNames ==
    /\ Cell = "value_counts"
    /\ vcounts' = ValueCounts(deaths_within_voronoi, "name")
    /\ bcounts' = ValueCounts(deaths_within_buffers, "name")
    /\ pc' = pc + 1
    /\ UNCHANGED <<notebook, disk, frames, joins, compareCounts, vdeaths, bdeaths,
                   compareSums, call, out, others>>

\* compareCounts = pd.merge(bcounts, vcounts, right_index = True, left_index = True)
\* compareCounts = compareCounts.rename(columns={'name_x':'buffers','name_y':'voronoi'})
CompareCounts ==
    /\ Cell = "compareCounts"
    /\ compareCounts' = RenameColumns(MergeOnIndex(bcounts, vcounts, "name"),
                                      "name_x", "buffers", "name_y", "voronoi")
    /\ pc' = pc + 1
    /\ UNCHANGED <<notebook, disk, frames, joins, vcounts, bcounts, vdeaths, bdeaths,
                   compareSums, call, out, others>>

\* vdeaths = deaths_within_voronoi.groupby('name')['Count'].sum()
\* bdeaths = deaths_within_buffers.groupby('name')['Count'].sum()
SumCounts ==
    /\ Cell = "groupby_sum"
    /\ vdeaths' = GroupBySum(deaths_within_voronoi, "name", "Count")
    /\ bdeaths' = GroupBySum(deaths_within_buffers, "name", "Count")
    /\ pc' = pc + 1
    /\ UNCHANGED <<notebook, disk, frames, joins, vcounts, bcounts, compareCounts,
                   compareSums, call, out, others>>

\* compareSums = pd.merge(bdeaths, vdeaths, right_index = True, left_index = True)
\* compareSums = compareSums.rename(columns={'Count_x':'buffers','Count_y':'voronoi'})
CompareSums ==
    /\ Cell = "compareSums"
    /\ compareSums' = RenameColumns(MergeOnIndex(bdeaths, vdeaths, "Count"),
                                    "Count_x", "buffers", "Count_y", "voronoi")
    /\ pc' = pc + 1
    /\ UNCHANGED <<notebook, disk, frames, joins, vcounts, bcounts, compareCounts,
                   vdeaths, bdeaths, call, out, others>>

\* the rows of pumpsGDF whose name is pumpName: pumpsGDF[pumpsGDF['name']==pumpName]
RowsNamed(pumpsGDF, pumpName) ==
    {i \in DOMAIN pumpsGDF.rows : pumpsGDF.rows[i].name = pumpName}

\* countBuffersContaining(pumpName, pumpsGDF): the lines it prints.  It does not
\* look at how many rows have the name: with one row it counts the buffers that
\* contain that pump
CountBuffersContaining(pumpName, pumpsGDF) ==
    LET focal == CHOOSE i \in RowsNamed(pumpsGDF, pumpName) : TRUE
        focalPump == pumpsGDF.rows[focal].geometry
        contained == {i \in DOMAIN pumpsGDF.rows :
                        Contains(pumpsGDF.rows[i].buffer, focalPump)}
    IN  IF Cardinality(contained) = 0
        THEN <<"No buffers contain " \o pumpName>>
        ELSE IF Cardinality(contained) = 1
        THEN <<"1 buffer contains " \o pumpName,
               "That buffer is " \o pumpsGDF.rows[CHOOSE i \in contained : TRUE].name>>
        ELSE <<ToString(Cardinality(contained)) \o " buffers contain " \o pumpName
                  \o ". They are:">>
             \o [k \in 1..Cardinality(contained) |->
                   pumpsGDF.rows[CHOOSE i \in contained :
                        Cardinality({j \in contained : j < i}) = k - 1].name]

\* what countBuffersContaining does with a name that is in no row: the empty
\* selection reaches row['buffer'].contains, which raises in one version of the
\* geometry library and answers False in another
CountBuffersContainingNoRow(pumpName) ==
    {<<"AttributeError">>, <<"No buffers contain " \o pumpName>>}

\* countBuffersContaining(pumpName, pumps)
CallCountBuffersContaining ==
    /\ Cell = "countBuffersContaining"
    /\ \E pumpName \in ArgNames :
         /\ call' = <<"countBuffersContaining", pumpName>>
         /\ IF RowsNamed(pumps, pumpName) = {}
            THEN out' \in CountBuffersContainingNoRow(pumpName)
            ELSE out' = CountBuffersContaining(pumpName, pumps)
    /\ pc' = pc + 1
    /\ UNCHANGED <<notebook, disk, frames, joins, tables, others>>

\* pumps.sample(): a frame of one row of pumps, any of them
Sample(frame) ==
    {[crs |-> frame.crs, rows |-> [i \in {k} |-> frame.rows[i]]] : k \in DOMAIN frame.rows}

\* series.squeeze() of the column col of a frame of one row
Squeeze(frame, col) == frame.rows[CHOOSE i \in DOMAIN frame.rows : TRUE][col]

\* the rows of a frame with the name pumpName, as a frame
Named(frame, pumpName) ==
    [crs |-> frame.crs,
     rows |-> [i \in RowsNamed(frame, pumpName) |-> frame.rows[i]]]

\* randomPump = pumps.sample(); ...; bsBuffer.overlaps(randomBuffer)
OverlapsOfSample ==
    /\ Cell = "overlaps"
    /\ randomPump' \in Sample(pumps)
    /\ randomBuffer' = Squeeze(randomPump', "buffer")
    /\ bsBuffer' = Squeeze(Named(pumps, "Broad St Pump"), "buffer")
    /\ out' = <<Squeeze(randomPump', "name"),
                IF Overlaps(bsBuffer', randomBuffer') THEN "True" ELSE "False">>
    /\ pc' = pc + 1
    /\ UNCHANGED <<notebook, disk, frames, joins, tables, call, kernel, operations, plot, lag>>

\* TidyBufferOverlaps without the test of the two selections
TidyBufferOverlapsUntested(buff1, buff2, pumpsGDF) ==
    LET A == RowsNamed(pumpsGDF, buff1)
        B == RowsNamed(pumpsGDF, buff2)
    IN  IF A = {} \/ B = {}
        THEN <<"False">>
        ELSE LET Abuf == pumpsGDF.rows[CHOOSE i \in A : TRUE].buffer
                 Bbuf == pumpsGDF.rows[CHOOSE i \in B : TRUE].buffer
             IN  <<IF Overlaps(Abuf, Bbuf) THEN "True" ELSE "False">>

\* tidyBufferOverlaps(buff1, buff2, pumpsGDF): the line it prints
TidyBufferOverlaps(buff1, buff2, pumpsGDF) ==
    LET A == RowsNamed(pumpsGDF, buff1)
        B == RowsNamed(pumpsGDF, buff2)
    IN  IF Cardinality(A) = 0 \/ Cardinality(B) = 0
        THEN <<"Pump name incorrectly specified">>
        ELSE LET Abuf == pumpsGDF.rows[CHOOSE i \in A : TRUE].buffer
                 Bbuf == pumpsGDF.rows[CHOOSE i \in B : TRUE].buffer
             IN  <<IF Overlaps(Abuf, Bbuf) THEN "True" ELSE "False">>

\* tidyBufferOverlaps(buff1, buff2, pumps)
CallTidyBufferOverlaps ==
    /\ Cell = "tidyBufferOverlaps"
    /\ \E buff1, buff2 \in ArgNames :
         /\ call' = <<"tidyBufferOverlaps", buff1, buff2>>
         /\ out' = TidyBufferOverlaps(buff1, buff2, pumps)
    /\ pc' = pc + 1
    /\ UNCHANGED <<notebook, disk, frames, joins, tables, others>>

Next ==
    \/ ReadFile
    \/ AssignId
    \/ BufferPumps
    \/ MakeBuffers
    \/ DeathsWithinBuffers
    \/ BuffersContainsDeathsInner
    \/ BuffersContainsDeathsRight
    \/ CompareJoinTypes
    \/ DeathsContainBuffers
    \/ VoronoiFrames
    \/ NameRegions
    \/ DeathsWithinVoronoi
    \/ SetRegionsCrs
    \/ CountNames
    \/ CompareCounts
    \/ SumCounts
    \/ CompareSums
    \/ CallCountBuffersContaining
    \/ OverlapsOfSample
    \/ CallTidyBufferOverlaps

Spec == Init /\ [][Next]_vars

\* ---------------------------------------------- the notebooks, name by name
\* any of the notebooks in a kernel just started
InitNames ==
    /\ notebook \in AllNotebooks
    /\ pc = 1
    /\ disk = << >>
    /\ FreshKernel
    /\ wKernel = << >> /\ plotFocal = ""

\* run the next code cell: a name it reads that is not bound raises NameError
\* and the run stops there
RunCode ==
    /\ unbound = {}
    /\ pc <= Len(CodeOf(notebook))
    /\ LET cell == CodeOf(notebook)[pc]
       IN  /\ unbound' = cell.reads \ bound
           /\ bound' = IF cell.reads \subseteq bound THEN Bind(bound, cell) ELSE bound
    /\ pc' = pc + 1
    /\ UNCHANGED <<notebook, disk, frames, joins, tables, call, out, samples, operations, plot, lag>>

NextNames == RunCode

SpecNames == InitNames /\ [][NextNames]_vars

\* ------------------------------------------------------- Operations.ipynb
\* series.tolist() of the rows of a frame in `keep`: a list in index order
RECURSIVE ToList(_, _, _)
ToList(frame, col, keep) ==
    IF keep = {} THEN << >>
    ELSE LET last == CHOOSE i \in keep : \A j \in keep : j <= i
         IN  Append(ToList(frame, col, keep \ {last}), frame.rows[last][col])

\* bufA = pumps[pumps['name']=='Broad St Pump']['buffer'].squeeze(); bufB likewise
\* for Rupert St Pump
SelectBuffers ==
    /\ Cell = "bufA_bufB"
    /\ bufA' = Squeeze(Named(pumps, "Broad St Pump"), "buffer")
    /\ bufB' = Squeeze(Named(pumps, "Rupert St Pump"), "buffer")
    /\ pc' = pc + 1
    /\ UNCHANGED <<notebook, disk, frames, joins, tables, call, out, samples, kernel, plot, lag,
                   AdiffB, BdiffA, AsdB, AintB, BintA, AunionB, unionBuffs, OtherBuffs,
                   unionOtherBuffs, AdiffuOB>>

\* AdiffB = bufA.difference(bufB)
DifferenceAB ==
    /\ Cell = "AdiffB"
    /\ AdiffB' = Difference(bufA, bufB)
    /\ pc' = pc + 1
    /\ UNCHANGED <<notebook, disk, frames, joins, tables, call, out, samples, kernel, plot, lag,
                   bufA, bufB, BdiffA, AsdB, AintB, BintA, AunionB, unionBuffs,
                   OtherBuffs, unionOtherBuffs, AdiffuOB>>

\* BdiffA = bufB.difference(bufA)
DifferenceBA ==
    /\ Cell = "BdiffA"
    /\ BdiffA' = Difference(bufB, bufA)
    /\ pc' = pc + 1
    /\ UNCHANGED <<notebook, disk, frames, joins, tables, call, out, samples, kernel, plot, lag,
                   bufA, bufB, AdiffB, AsdB, AintB, BintA, AunionB, unionBuffs,
                   OtherBuffs, unionOtherBuffs, AdiffuOB>>

\* AsdB = bufA.symmetric_difference(bufB)
SymmetricDifferenceAB ==
    /\ Cell = "AsdB"
    /\ AsdB' = SymmetricDifference(bufA, bufB)
    /\ pc' = pc + 1
    /\ UNCHANGED <<notebook, disk, frames, joins, tables, call, out, samples, kernel, plot, lag,
                   bufA, bufB, AdiffB, BdiffA, AintB, BintA, AunionB, unionBuffs,
                   OtherBuffs, unionOtherBuffs, AdiffuOB>>

\* AintB = bufA.intersection(bufB)
IntersectionAB ==
    /\ Cell = "AintB"
    /\ AintB' = Intersection(bufA, bufB)
    /\ pc' = pc + 1
    /\ UNCHANGED <<notebook, disk, frames, joins, tables, call, out, samples, kernel, plot, lag,
                   bufA, bufB, AdiffB, BdiffA, AsdB, BintA, AunionB, unionBuffs,
                   OtherBuffs, unionOtherBuffs, AdiffuOB>>

\* BintA = bufB.intersection(bufA)
IntersectionBA ==
    /\ Cell = "BintA"
    /\ BintA' = Intersection(bufB, bufA)
    /\ pc' = pc + 1
    /\ UNCHANGED <<notebook, disk, frames, joins, tables, call, out, samples, kernel, plot, lag,
                   bufA, bufB, AdiffB, BdiffA, AsdB, AintB, AunionB, unionBuffs,
                   OtherBuffs, unionOtherBuffs, AdiffuOB>>

\* AunionB = bufA.union(bufB)
UnionAB ==
    /\ Cell = "AunionB"
    /\ AunionB' = Union(bufA, bufB)
    /\ pc' = pc + 1
    /\ UNCHANGED <<notebook, disk, frames, joins, tables, call, out, samples, kernel, plot, lag,
                   bufA, bufB, AdiffB, BdiffA, AsdB, AintB, BintA, unionBuffs,
                   OtherBuffs, unionOtherBuffs, AdiffuOB>>

\* unionBuffs = shapely.ops.unary_union(pumps['buffer'].tolist())
UnionOfBuffers ==
    /\ Cell = "unionBuffs"
    /\ unionBuffs' = UnaryUnion(ToList(pumps, "buffer", DOMAIN pumps.rows))
    /\ pc' = pc + 1
    /\ UNCHANGED <<notebook, disk, frames, joins, tables, call, out, samples, kernel, plot, lag,
                   bufA, bufB, AdiffB, BdiffA, AsdB, AintB, BintA, AunionB, OtherBuffs,
                   unionOtherBuffs, AdiffuOB>>

\* OtherBuffs = pumps[pumps['name']!='Broad St Pump']['buffer'].tolist()
\* unionOtherBuffs = shapely.ops.unary_union(OtherBuffs)
UnionOfOtherBuffers ==
    /\ Cell = "unionOtherBuffs"
    /\ OtherBuffs' = ToList(pumps, "buffer", (DOMAIN pumps.rows) \ RowsNamed(pumps, "Broad St Pump"))
    /\ unionOtherBuffs' = UnaryUnion(OtherBuffs')
    /\ pc' = pc + 1
    /\ UNCHANGED <<notebook, disk, frames, joins, tables, call, out, samples, kernel, plot, lag,
                   bufA, bufB, AdiffB, BdiffA, AsdB, AintB, BintA, AunionB, unionBuffs,
                   AdiffuOB>>

\* AdiffuOB = bufA.difference(unionOtherBuffs)
DifferenceOfUnion ==
    /\ Cell = "AdiffuOB"
    /\ AdiffuOB' = Difference(bufA, unionOtherBuffs)
    /\ pc' = pc + 1
    /\ UNCHANGED <<notebook, disk, frames, joins, tables, call, out, samples, kernel, plot, lag,
                   bufA, bufB, AdiffB, BdiffA, AsdB, AintB, BintA, AunionB, unionBuffs,
                   OtherBuffs, unionOtherBuffs>>

InitOperations ==
    /\ notebook = "Operations"
    /\ pc = 1
    /\ \E s \in OperationsLayouts : disk = [pumps |-> PumpsFile(s)]
    /\ FreshKernel
    /\ wKernel = << >> /\ plotFocal = ""

NextOperations ==
    \/ ReadFile
    \/ BufferPumps
    \/ SelectBuffers
    \/ DifferenceAB
    \/ DifferenceBA
    \/ SymmetricDifferenceAB
    \/ IntersectionAB
    \/ IntersectionBA
    \/ UnionAB
    \/ UnionOfBuffers
    \/ UnionOfOtherBuffers
    \/ DifferenceOfUnion

SpecOperations == InitOperations /\ [][NextOperations]_vars

\* ------------------------------------------- plotKernel (Spatial Weights)
\* Weights are whole numbers of 1/(5 * Step): a bin of width 0.2 is Step wide
\* and the weight 1.0 is 5 * Step.
One == 5 * Step

Weights == 0..One

\* wKernel.full() of a kernel weights object of the pumps: a symmetric matrix
\* by position, the weight of a pump with itself the same for all pumps, and
\* the ids in the order of the rows
KernelWeights ==
    {[ids |-> PumpNames,
      full |-> [i \in 1..NumPumps |-> [j \in 1..NumPumps |->
                  IF i = j THEN d
                  ELSE p[IF i < j THEN <<i, j>> ELSE <<j, i>>]]]] :
        d \in Weights \ {0},
        p \in [{m \in (1..NumPumps) \X (1..NumPumps) : m[1] < m[2]} -> Weights]}

\* EQbins = [0.0, 0.2, 0.4, 0.6, 0.8, 1.0]
EQbins == [i \in 1..6 |-> (i - 1) * Step]

\* str(x) of a bin edge x, as format() writes it: one digit after the point
FormatFloat(x) ==
    LET tenths == (10 * x) \div One
    IN  ToString(tenths \div 10) \o "." \o ToString(tenths % 10)

\* the loop over enumerate(EQbins) that appends '{0}-{1}' for every i > 0
RECURSIVE Labels(_, _)
Labels(bins, n) ==
    IF n <= 1 THEN << >>
    ELSE Append(Labels(bins, n - 1),
                FormatFloat(bins[n - 1]) \o "-" \o FormatFloat(bins[n]))

\* full_matrix[full_matrix==0] = np.nan
ZerosToNaN(matrix) ==
    [i \in DOMAIN matrix |-> [j \in DOMAIN matrix[i] |->
        IF matrix[i][j] = 0 THEN NaN ELSE matrix[i][j]]]

\* ids.index(focal)
IndexOf(ids, name) ==
    CHOOSE i \in DOMAIN ids : ids[i] = name /\ \A k \in 1..(i - 1) : ids[k] # name

\* Cut with bins closed on the left: [lo, hi)
CutLeftClosed(values, bins, labels) ==
    [j \in DOMAIN values |->
        LET x == values[j]
            at == {i \in 1..(Len(bins) - 1) : bins[i] <= x /\ x < bins[i + 1]}
        IN  IF x = NaN \/ at = {} THEN "NaN"
            ELSE labels[CHOOSE i \in at : TRUE]]

\* pd.cut(values, bins=bins, labels=labels): bins are (lo, hi]; a value in no
\* bin, and NaN, get no label
Cut(values, bins, labels) ==
    [j \in DOMAIN values |->
        LET x == values[j]
            at == {i \in 1..(Len(bins) - 1) : bins[i] < x /\ x <= bins[i + 1]}
        IN  IF x = NaN \/ at = {} THEN "NaN"
            ELSE labels[CHOOSE i \in at : TRUE]]

\* plotKernel(wKernel, gpDF, focal, myAx), up to the plot of the cats column
PlotKernel ==
    /\ notebook = "SpatialWeights"
    /\ pc = 1
    /\ labs' = Labels(EQbins, Len(EQbins))
    /\ full_matrix' = ZerosToNaN(wKernel.full)
    /\ cats' = Cut(full_matrix'[IndexOf(wKernel.ids, plotFocal)], EQbins, labs')
    /\ pc' = pc + 1
    /\ UNCHANGED <<notebook, disk, frames, joins, tables, call, out, samples, kernel,
                   operations, wKernel, plotFocal, lag>>

\* the kernel at the call of plotKernel: any kernel weights of the pumps, any
\* pump as the focal one
InitPlotKernel ==
    /\ notebook = "SpatialWeights"
    /\ pc = 1
    /\ disk = << >>
    /\ FreshKernel
    /\ wKernel \in KernelWeights
    /\ plotFocal \in {PumpNames[i] : i \in 1..NumPumps}

NextPlotKernel == PlotKernel

SpecPlotKernel == InitPlotKernel /\ [][NextPlotKernel]_vars

\* ------------------------------------------ spatial lag (Arribas-Bel et al.)
\* Deaths_dens, the weights and the lags are fractions num/den in lowest terms
RECURSIVE GCD(_, _)
GCD(a, b) == IF b = 0 THEN a ELSE GCD(b, a % b)

Frac(n, d) == LET g == GCD(n, d) IN [num |-> n \div g, den |-> d \div g]

FracAdd(a, b) == Frac(a.num * b.den + b.num * a.den, a.den * b.den)

FracMul(a, b) == Frac(a.num * b.num, a.den * b.den)

FracDiv(a, b) == Frac(a.num * b.den, a.den * b.num)

RECURSIVE FracSum(_)
FracSum(s) == IF s = << >> THEN Frac(0, 1) ELSE FracAdd(Head(s), FracSum(Tail(s)))

\* the segments a street file can hold: pairs of vertices, the lower first
Arcs == {a \in (0..MaxVertex) \X (0..MaxVertex) : a[1] < a[2]}

\* the number of rows of streets_js.shp
NumSegments == 3

\* the segments of streets_js.shp in the order of its rows; segment 0-1 is one
\* of them
StreetLayouts ==
    {s \in [1..NumSegments -> Arcs] :
        /\ \A i, j \in 1..NumSegments : i < j =>
              (s[i][1] < s[j][1] \/ (s[i][1] = s[j][1] /\ s[i][2] < s[j][2]))
        /\ \E i \in 1..NumSegments : s[i] = <<0, 1>>}

\* the segIdStr of the segment between the vertices a[1] and a[2]
SegIdStr(a) == "s" \o ToString(a[1]) \o "-" \o ToString(a[2])

\* streets_js.shp with the segments s and the densities d
StreetsFile(s, d) ==
    [crs |-> CrsOfFiles,
     rows |-> [i \in 0..(Len(s) - 1) |->
                [segIdStr |-> SegIdStr(s[i + 1]), Deaths_dens |-> d[i + 1],
                 geometry |-> s[i + 1]]]]

\* sp.Network(path): the arcs of the file, in the order of its rows
Network(file) == [arcs |-> [k \in 1..Len0(file.rows) |-> file.rows[k - 1].geometry]]

\* ntw.contiguityweights(graph=False): two arcs are neighbours when they share
\* a vertex; every neighbour has the weight 1
ContiguityWeights(net) ==
    LET Touches(a, b) == a # b /\ {a[1], a[2]} \cap {b[1], b[2]} # {}
        Near(a) == LET T(b) == Touches(a, b) IN SelectSeq(net.arcs, T)
        ids == {net.arcs[k] : k \in DOMAIN net.arcs}
    IN  [id_order |-> net.arcs,
         neighbors |-> [a \in ids |-> Near(a)],
         weights |-> [a \in ids |-> [k \in 1..Len(Near(a)) |-> Frac(1, 1)]],
         transform |-> "O"]

\* w.remap_ids(new_ids): the k-th id of w becomes the k-th of new_ids
RemapIds(wts, new_ids) ==
    LET PosOf(old) == CHOOSE k \in DOMAIN wts.id_order : wts.id_order[k] = old
        OldOf(new) == wts.id_order[CHOOSE k \in DOMAIN new_ids : new_ids[k] = new]
        ids == {new_ids[k] : k \in DOMAIN new_ids}
    IN  [id_order |-> new_ids,
         neighbors |-> [n \in ids |->
                          [k \in DOMAIN wts.neighbors[OldOf(n)] |->
                              new_ids[PosOf(wts.neighbors[OldOf(n)][k])]]],
         weights |-> [n \in ids |-> wts.weights[OldOf(n)]],
         transform |-> wts.transform]

\* a transform that leaves the weights as they are
TransformOriginal(wts, to) == [wts EXCEPT !.transform = to]

\* w.transform = 'R': every weight is divided by the sum of its row; a row
\* with no neighbours stays empty
Transform(wts, to) ==
    IF to # "R" THEN [wts EXCEPT !.transform = to]
    ELSE [wts EXCEPT
            !.transform = "R",
            !.weights = [n \in DOMAIN wts.weights |->
                           [k \in DOMAIN wts.weights[n] |->
                               FracDiv(wts.weights[n][k], FracSum(wts.weights[n]))]]]

\* lps.weights.lag_spatial(w, y) = w.sparse * y: row k of the product is the
\* sum over the neighbours of the k-th id of weight times the y at the
\* neighbour's position
LagSpatial(wts, y) ==
    LET PosOf(id) == CHOOSE k \in DOMAIN wts.id_order : wts.id_order[k] = id
    IN  [k \in DOMAIN wts.id_order |->
            LET id == wts.id_order[k]
            IN  FracSum([j \in DOMAIN wts.neighbors[id] |->
                           FracMul(wts.weights[id][j], y[PosOf(wts.neighbors[id][j])])])]

\* frame.set_index(index).loc[labels, col]: for every label the value of col
\* in the row that has the label
Loc(frame, index, labels, col) ==
    [j \in DOMAIN labels |->
        frame.rows[CHOOSE i \in DOMAIN frame.rows : frame.rows[i][index] = labels[j]][col]]

\* series.mean(): NaN for an empty series
Mean(series) ==
    IF series = << >> THEN NaN
    ELSE FracDiv(FracSum(series), Frac(Len(series), 1))

\* js = gpd.read_file(..streets_js.shp)
ReadStreets ==
    /\ notebook = "ArribasBel" /\ Cell = "read_file"
    /\ js' = disk.streets_js
    /\ pc' = pc + 1
    /\ UNCHANGED <<notebook, disk, frames, joins, tables, call, out, samples, kernel,
                   operations, plot, ntw, w, neigh>>

\* ntw = sp.Network(..streets_js.shp)
LoadNetwork ==
    /\ Cell = "Network"
    /\ ntw' = Network(disk.streets_js)
    /\ pc' = pc + 1
    /\ UNCHANGED <<notebook, disk, frames, joins, tables, call, out, samples, kernel,
                   operations, plot, js, w, neigh>>

\* w = ntw.contiguityweights(graph=False); w.remap_ids(js['segIdStr']);
\* w.transform = 'R'
CreateWeights ==
    /\ Cell = "contiguityweights"
    /\ w' = Transform(RemapIds(ContiguityWeights(ntw),
                               [k \in 1..Len0(js.rows) |-> js.rows[k - 1].segIdStr]),
                      "R")
    /\ pc' = pc + 1
    /\ UNCHANGED <<notebook, disk, frames, joins, tables, call, out, samples, kernel,
                   operations, plot, js, ntw, neigh>>

\* js['w_Deaths_dens'] = lps.weights.lag_spatial(w, js['Deaths_dens'])
SpatialLag ==
    /\ Cell = "lag_spatial"
    /\ LET y == [k \in 1..Len0(js.rows) |-> js.rows[k - 1].Deaths_dens]
           wy == LagSpatial(w, y)
       IN  js' = AssignColumn(js, "w_Deaths_dens", [i \in DOMAIN js.rows |-> wy[i + 1]])
    /\ pc' = pc + 1
    /\ UNCHANGED <<notebook, disk, frames, joins, tables, call, out, samples, kernel,
                   operations, plot, ntw, w, neigh>>

\* neigh = js.set_index('segIdStr').loc[w.neighbors['s0-1'], 'Deaths_dens']
Neighbours ==
    /\ Cell = "neigh"
    /\ neigh' = Loc(js, "segIdStr", w.neighbors["s0-1"], "Deaths_dens")
    /\ pc' = pc + 1
    /\ UNCHANGED <<notebook, disk, frames, joins, tables, call, out, samples, kernel,
                   operations, plot, js, ntw, w>>

\* neigh.mean()
MeanOfNeighbours ==
    /\ Cell = "mean"
    /\ out' = Mean(neigh)
    /\ pc' = pc + 1
    /\ UNCHANGED <<notebook, disk, frames, joins, tables, call, samples, kernel,
                   operations, plot, lag>>

\* the densities a segment can have
Densities == {Frac(n, 1) : n \in 0..MaxDeaths}

InitLag ==
    /\ notebook = "ArribasBel"
    /\ pc = 1
    /\ \E s \in StreetLayouts : \E d \in [1..NumSegments -> Densities] :
          disk = [streets_js |-> StreetsFile(s, d)]
    /\ FreshKernel
    /\ wKernel = << >> /\ plotFocal = ""

NextLag ==
    \/ ReadStreets
    \/ LoadNetwork
    \/ CreateWeights
    \/ SpatialLag
    \/ Neighbours
    \/ MeanOfNeighbours

SpecLag == InitLag /\ [][NextLag]_vars

\* --------------------------------------------------------------- properties
\* the step `name` of notebook nb has run
Ran(nb, name) ==
    /\ notebook = nb
    /\ \E k \in 1..Len(CellsOf(nb)) : CellsOf(nb)[k] = name /\ pc > k

\* the location of pump i and of death i in the files
PumpAt(i) == disk.pumps.rows[i].geometry.at

DeathAt(i) == disk.deaths.rows[i].geometry.at

PumpIndex == DOMAIN disk.pumps.rows

DeathIndex == DOMAIN disk.deaths.rows

\* pump i is nearer to death d than every other pump
OnlyNearest(d, i) ==
    \A j \in PumpIndex \ {i} : Dist2(DeathAt(d), PumpAt(i)) < Dist2(DeathAt(d), PumpAt(j))

\* death d is less than 200 m from pump i
Near(d, i) == Dist2(DeathAt(d), PumpAt(i)) < BufferDist * BufferDist

\* C1 as stated: every call of gpd.sjoin sees the same CRS on its two frames
C1_EverySjoinSameCrs ==
    \A k \in DOMAIN sjoin_calls : sjoin_calls[k].left_crs = sjoin_calls[k].right_crs

\* C1 amended: every call of gpd.sjoin sees the same CRS on its two frames except
\* the first join of deaths with regions_df, which runs while regions_df has no
\* CRS; after regions_df.set_crs the join is run again on frames of the same
\* CRS, and that call is the one deaths_within_voronoi is left from
C1_SjoinSameCrsButFirstVoronoi ==
    /\ \A k \in DOMAIN sjoin_calls :
          \/ sjoin_calls[k].left_crs = sjoin_calls[k].right_crs
          \/ /\ sjoin_calls[k].result = "deaths_within_voronoi"
             /\ sjoin_calls[k].right_crs = NoCrs
             /\ \A h \in 1..(k - 1) : sjoin_calls[h].result # "deaths_within_voronoi"
    /\ Ran("SpatialJoins", "deaths_within_voronoi") =>
          /\ sjoin_calls[Len(sjoin_calls)].result = "deaths_within_voronoi"
          /\ sjoin_calls[Len(sjoin_calls)].left_crs = CrsOfFiles
          /\ sjoin_calls[Len(sjoin_calls)].right_crs = CrsOfFiles

\* both joins of deaths with regions_df have run, one of them without a CRS
C1_Witness ==
    /\ Ran("SpatialJoins", "deaths_within_voronoi")
    /\ \E k \in DOMAIN sjoin_calls : sjoin_calls[k].right_crs = NoCrs
    /\ Cardinality({k \in DOMAIN sjoin_calls :
                      sjoin_calls[k].result = "deaths_within_voronoi"}) = 2

\* the rows of a join that come from row d of deaths
RowsOfDeath(join, d) == {r \in join.rows : r.index = d}

C3_VoronoiNeverDoubleCounts ==
    /\ Ran("SpatialJoins", "deaths_within_voronoi_nocrs") =>
          \A r1, r2 \in deaths_within_voronoi.rows : r1.Id = r2.Id => r1 = r2
    /\ Ran("SpatialJoins", "compareSums") =>
          TableSum(compareSums, "voronoi")
              <= SumOver({deaths.rows[d] : d \in DOMAIN deaths.rows}, "Count")

\* compareSums is built from two deaths, one of them counted twice by the buffers
C3_Witness ==
    /\ Ran("SpatialJoins", "compareSums")
    /\ Cardinality(deaths_within_voronoi.rows) = 2
    /\ TableSum(compareSums, "voronoi") >= 3
    /\ TableSum(compareSums, "buffers") > TableSum(compareSums, "voronoi")

\* the deaths within the buffer of pump i, and those within its Thiessen polygon
InBuffer(i) == {d \in DeathIndex : Near(d, i)}

InPolygon(i) == {d \in DeathIndex : OnlyNearest(d, i)}

CountOf(ds) == SumOver({disk.deaths.rows[d] : d \in ds}, "Count")

\* the row index of the pump named n
PumpNamed(n) == CHOOSE i \in PumpIndex : disk.pumps.rows[i].name = n

C5_VoronoiNameIsNearestPump ==
    Ran("SpatialJoins", "deaths_within_voronoi_nocrs") =>
        \A r \in deaths_within_voronoi.rows :
            \E i \in PumpIndex :
                /\ pumps.rows[i].name = r.name
                /\ \A j \in PumpIndex :
                      Dist2(r.geometry.at, PumpAt(i)) <= Dist2(r.geometry.at, PumpAt(j))

\* two deaths joined to two different pumps
C5_Witness ==
    /\ Ran("SpatialJoins", "deaths_within_voronoi")
    /\ Cardinality({r.name : r \in deaths_within_voronoi.rows}) = 2

\* the frame a file was read into
FrameOf(file) == IF file = "pumps" THEN pumps ELSE deaths

\* the cell of row i, column c of the frame read from file holds what the file holds
SameAsFile(file, i, c) ==
    /\ i \in DOMAIN FrameOf(file).rows
    /\ c \in DOMAIN FrameOf(file).rows[i]
    /\ FrameOf(file).rows[i][c] = disk[file].rows[i][c]

LoadedValuesButId ==
    Ran(notebook, "read_file") =>
        \A file \in DOMAIN disk :
            /\ FrameOf(file).crs = disk[file].crs
            /\ \A i \in DOMAIN disk[file].rows :
                  \A c \in DOMAIN disk[file].rows[i] :
                      IF file = "deaths" /\ c = "Id" /\ Ran("SpatialJoins", "assign_Id")
                      THEN deaths.rows[i].Id = i
                      ELSE SameAsFile(file, i, c)

TidyMessage == <<"Pump name incorrectly specified">>

\* C7 as stated: no code path tests an input, so nothing ever reports a wrongly
\* specified pump name
C7_NoInputIsTested == out # TidyMessage

\* C7 amended: the one test of an input is in tidyBufferOverlaps, which prints
\* 'Pump name incorrectly specified' exactly when one of its two names is the
\* name of no pump; countBuffersContaining does not test its name, and no join
\* is tested for its CRS or for an empty result
C7_OnlyTidyBufferOverlapsTestsNames ==
    Ran("Relations", "countBuffersContaining") =>
        LET names == {pumps.rows[i].name : i \in DOMAIN pumps.rows}
        IN  (out = TidyMessage) <=>
                /\ call[1] = "tidyBufferOverlaps"
                /\ call[2] \notin names \/ call[3] \notin names

\* tidyBufferOverlaps was called with a name of no pump and reported it
C7_Witness ==
    /\ Ran("Relations", "tidyBufferOverlaps")
    /\ call[3] = WrongName /\ call[2] # WrongName
    /\ out = TidyMessage

\* the inner join of buffers with deaths has just run
AfterBuffersContainsDeathsInner ==
    notebook = "SpatialJoins" /\ Cell = "buffers_contains_deaths_right"

\* C8: deaths within buffers and buffers contains deaths (both inner) hold the
\* same (death, buffer) pairs and as many rows; the first keeps the points, the
\* second the polygons
C8_WithinAndContainsJoinSamePairs ==
    AfterBuffersContainsDeathsInner =>
        /\ {<<r.index, r.index_right>> : r \in deaths_within_buffers.rows}
              = {<<r.index_right, r.index>> : r \in buffers_contains_deaths.rows}
        /\ Cardinality(deaths_within_buffers.rows)
              = Cardinality(buffers_contains_deaths.rows)
        /\ \A r \in deaths_within_buffers.rows : r.geometry.kind = "Point"
        /\ \A r \in buffers_contains_deaths.rows : r.geometry.kind = "Buffer"

\* both joins have rows, and a death on the boundary of a buffer is in neither
C8_Witness ==
    /\ AfterBuffersContainsDeathsInner
    /\ Cardinality(buffers_contains_deaths.rows) >= 2
    /\ \E d \in DeathIndex, i \in PumpIndex :
          Dist2(DeathAt(d), PumpAt(i)) = BufferDist * BufferDist

\* the (death, buffer) pairs with the death less than 200 m from the pump
NearPairs == {m \in DeathIndex \X PumpIndex : Near(m[1], m[2])}

DeathsInNoBuffer == {d \in DeathIndex : \A i \in PumpIndex : ~Near(d, i)}

BuffersWithNoDeath == {i \in PumpIndex : \A d \in DeathIndex : ~Near(d, i)}

\* C9: an inner join has one row per pair that satisfies the relation and no
\* other row; a left join has one more row for every left row that matches
\* nothing, a right join one more for every right row that matches nothing, so
\* every left row is in a left join and every right row in a right join
C9_JoinTypes ==
    Ran("SpatialJoins", "dwb") =>
        /\ {<<r.index, r.index_right>> : r \in dwb_inner.rows} = NearPairs
        /\ Cardinality(dwb_inner.rows) = Cardinality(NearPairs)
        /\ {<<r.index, r.index_right>> : r \in dwb_left.rows}
              = NearPairs \cup {<<d, NaN>> : d \in DeathsInNoBuffer}
        /\ Cardinality(dwb_left.rows)
              = Cardinality(NearPairs) + Cardinality(DeathsInNoBuffer)
        /\ {r.index : r \in dwb_left.rows} = DOMAIN deaths.rows
        /\ {<<r.index_left, r.index>> : r \in dwb_right.rows}
              = NearPairs \cup {<<NaN, i>> : i \in BuffersWithNoDeath}
        /\ Cardinality(dwb_right.rows)
              = Cardinality(NearPairs) + Cardinality(BuffersWithNoDeath)
        /\ {r.index : r \in dwb_right.rows} = DOMAIN buffers.rows
        /\ {<<r.index_left, r.index>> : r \in buffers_contains_deaths.rows}
              = {<<m[2], m[1]>> : m \in NearPairs}
                    \cup {<<NaN, d>> : d \in DeathsInNoBuffer}
        /\ {r.index : r \in buffers_contains_deaths.rows} = DOMAIN deaths.rows

\* the three joins of a death in a buffer, a death in none and an empty buffer
C9_Witness ==
    /\ Ran("SpatialJoins", "dwb")
    /\ NearPairs # {}
    /\ DeathsInNoBuffer # {}
    /\ BuffersWithNoDeath # {}

C11_DeathsContainNoBuffer ==
    Ran("SpatialJoins", "deaths_contain_buffers") => deaths_contain_buffers.rows = {}

\* the join has run on deaths of which some are within buffers, one of them
\* at the very place of a pump
C11_Witness ==
    /\ Ran("SpatialJoins", "deaths_contain_buffers")
    /\ deaths_contain_buffers.rows = {}
    /\ deaths_within_buffers.rows # {}
    /\ \E d \in DeathIndex, i \in PumpIndex : DeathAt(d) = PumpAt(i)

\* C12 as stated: whichever pump pumps.sample() selects, the cell
\* bsBuffer.overlaps(randomBuffer) shows True
C12_BroadStBufferOverlapsEverySample ==
    Ran("Relations", "overlaps") => out[2] = "True"

\* C13: in every notebook run top to bottom in a kernel of its own, every name
\* a code cell reads was bound by an earlier cell of that notebook (or earlier
\* in the cell itself), so no cell raises NameError
C13_EveryNameReadIsBound ==
    /\ unbound = {}
    /\ pc <= Len(CodeOf(notebook)) => CodeOf(notebook)[pc].reads \subseteq bound

\* the Spatial Weights notebook has run to its end: plotKernel was called with
\* pumpsK and regions_df, all bound by its own cells
C13_Witness ==
    /\ notebook = "SpatialWeights"
    /\ pc > Len(SpatialWeightsCode)
    /\ unbound = {}
    /\ {"plotKernel", "pumpsK", "regions_df", "myKernel"} \subseteq bound

\* the places of the other pumps than Broad St Pump
OtherPumpsAt ==
    {PumpAt(i) : i \in PumpIndex \ RowsNamed(disk.pumps, "Broad St Pump")}

BroadStAt == PumpAt(CHOOSE i \in RowsNamed(disk.pumps, "Broad St Pump") : TRUE)

\* less than 200 m from Broad St Pump and more than 200 m from every other pump
NearBroadStOnly(q) ==
    /\ Dist2(q, BroadStAt) < BufferDist * BufferDist
    /\ \A o \in OtherPumpsAt : Dist2(q, o) > BufferDist * BufferDist

\* more than 200 m from Broad St Pump, or less than 200 m from another pump
OffBroadStOnly(q) ==
    \/ Dist2(q, BroadStAt) > BufferDist * BufferDist
    \/ \E o \in OtherPumpsAt : Dist2(q, o) < BufferDist * BufferDist

\* C14: AdiffuOB = bufA.difference(unionOtherBuffs) holds exactly the points
\* within 200 m of Broad St Pump and not within 200 m of any other pump: a place
\* is inside it when it is less than 200 m from Broad St Pump and more than
\* 200 m from every other pump, no part of it when it is more than 200 m from
\* Broad St Pump or less than 200 m from another pump, and on its boundary when
\* one of these distances is exactly 200 m
C14_AdiffuOBIsNearBroadStOnly ==
    Ran("Operations", "AdiffuOB") =>
        \A q \in Plane :
            /\ q \in AdiffuOB.interior <=> NearBroadStOnly(q)
            /\ q \notin Closed(AdiffuOB) <=> OffBroadStOnly(q)

\* the buffers of the other pumps cut a part out of the buffer of Broad St Pump
\* and leave a part of it, and they are two separate areas themselves
C14_Witness ==
    /\ Ran("Operations", "AdiffuOB")
    /\ AdiffuOB.interior # {}
    /\ AdiffuOB.interior # AreaOf(bufA).interior
    /\ \E q \in AdiffuOB.boundary : Dist2(q, BroadStAt) < BufferDist * BufferDist
    /\ unionOtherBuffs.geom_type = "MultiPolygon"

\* C15: the union of bufA and bufB is their intersection together with their
\* symmetric difference, the two parts share no area, and the symmetric
\* difference is the union without the intersection
C15_UnionIsIntersectionAndSymmetricDifference ==
    Ran("Operations", "AunionB") =>
        /\ Closed(AunionB) = Closed(AintB) \cup Closed(AsdB)
        /\ AunionB.interior =
              AintB.interior \cup AsdB.interior
                  \cup (AintB.boundary \cap AsdB.boundary \cap AunionB.interior)
        /\ AintB.interior \cap AsdB.interior = {}
        /\ AsdB.interior = Difference(AunionB, AintB).interior
        /\ AsdB.boundary = Difference(AunionB, AintB).boundary

\* the two buffers share a part, each has a part of its own, and a place lies
\* on the edge between the shared part and the rest
C15_Witness ==
    /\ Ran("Operations", "AunionB")
    /\ AintB.interior # {}
    /\ AdiffB.interior # {} /\ BdiffA.interior # {}
    /\ AintB.boundary \cap AsdB.boundary \cap AunionB.interior # {}

UnionBuffsIsNearAnyPump ==
    \A q \in Plane :
        /\ q \in unionBuffs.interior
              <=> \E i \in PumpIndex : Dist2(q, PumpAt(i)) < BufferDist * BufferDist
        /\ q \notin Closed(unionBuffs)
              <=> \A i \in PumpIndex : Dist2(q, PumpAt(i)) > BufferDist * BufferDist

\* no group of pumps is 400 m or more from all the other pumps
PumpsHangTogether ==
    \A S \in (SUBSET PumpIndex) \ {{}, PumpIndex} :
        \E i \in S, j \in PumpIndex \ S :
            Dist2(PumpAt(i), PumpAt(j)) < (2 * BufferDist) * (2 * BufferDist)

PlotKernelRan == cats # << >>

\* the weight of the focal row at position j, as wKernel.full() gives it
FocalWeight(j) == wKernel.full[IndexOf(wKernel.ids, plotFocal)][j]

\* C18: plotKernel builds the five labels 0.0-0.2, 0.2-0.4, 0.4-0.6, 0.6-0.8
\* and 0.8-1.0 from the six bin edges; every weight w of the focal row with
\* 0 < w <= 1 gets exactly one label lo-hi, the one with lo < w <= hi; a
\* weight equal to 0 is replaced by NaN and gets no label
C18_EveryWeightGetsItsBin ==
    PlotKernelRan =>
        /\ Len(EQbins) = 6
        /\ labs = <<"0.0-0.2", "0.2-0.4", "0.4-0.6", "0.6-0.8", "0.8-1.0">>
        /\ \A j \in DOMAIN cats :
             LET x == FocalWeight(j)
             IN  /\ (0 < x /\ x <= One) =>
                       /\ Cardinality({k \in DOMAIN labs : cats[j] = labs[k]}) = 1
                       /\ \A k \in DOMAIN labs :
                            cats[j] = labs[k] <=>
                                ((k - 1) * Step < x /\ x <= k * Step)
                 /\ x = 0 =>
                       /\ full_matrix[IndexOf(wKernel.ids, plotFocal)][j] = NaN
                       /\ cats[j] = "NaN"

\* the focal row has a weight on a bin edge, a weight inside a bin, and a zero
C18_Witness ==
    /\ PlotKernelRan
    /\ \E j \in DOMAIN cats : FocalWeight(j) = 0 /\ cats[j] = "NaN"
    /\ \E j \in DOMAIN cats : FocalWeight(j) = Step /\ cats[j] = "0.0-0.2"
    /\ \E j \in DOMAIN cats : FocalWeight(j) = One - 1 /\ cats[j] = "0.8-1.0"
\* the rows of js whose segIdStr is a neighbour of the segment of row i
NeighbourRows(i) ==
    {j \in DOMAIN js.rows :
        \E k \in DOMAIN w.neighbors[js.rows[i].segIdStr] :
            w.neighbors[js.rows[i].segIdStr][k] = js.rows[j].segIdStr}

RECURSIVE DensSum(_)
DensSum(rows) ==
    IF rows = {} THEN Frac(0, 1)
    ELSE LET i == CHOOSE i \in rows : TRUE
         IN  FracAdd(js.rows[i].Deaths_dens, DensSum(rows \ {i}))

\* the lag of row i is the arithmetic mean of Deaths_dens over its neighbours
LagIsMean(i) ==
    LET lagged == js.rows[i].w_Deaths_dens
        sum == DensSum(NeighbourRows(i))
    IN  lagged.num * sum.den * Cardinality(NeighbourRows(i)) = sum.num * lagged.den

\* C19: with the weights row-standardised, the spatial lag w_Deaths_dens of
\* every street segment that has neighbours is the arithmetic mean of
\* Deaths_dens over its neighbours; for s0-1 it is the number neigh.mean() gives
C19_LagIsMeanOfNeighbours ==
    /\ Ran("ArribasBel", "lag_spatial") =>
          /\ w.transform = "R"
          /\ \A i \in DOMAIN js.rows :
                NeighbourRows(i) # {} => LagIsMean(i)
    /\ (Ran("ArribasBel", "mean") /\ w.neighbors["s0-1"] # << >>) =>
          \A i \in DOMAIN js.rows :
             js.rows[i].segIdStr = "s0-1" => out = js.rows[i].w_Deaths_dens

\* s0-1 has two neighbours of different densities whose mean is no whole
\* number, and the third segment's neighbours are not those of s0-1
C19_Witness ==
    /\ Ran("ArribasBel", "mean")
    /\ Len(neigh) = 2 /\ neigh[1] # neigh[2]
    /\ out.den = 2
    /\ \E i \in DOMAIN js.rows :
          /\ js.rows[i].segIdStr # "s0-1"
          /\ Cardinality(NeighbourRows(i)) = 1
          /\ js.rows[i].w_Deaths_dens # out

====
